---- MODULE Spec2Model ----
(***************************************************************************)
(* A model of oxipng: the trial evaluator (src/src/evaluate.rs), the row   *)
(* filters (src/src/filters.rs), the palette reduction                     *)
(* (src/src/reduction/mod.rs) and the per-file pipeline (src/src/lib.rs).  *)
(***************************************************************************)
EXTENDS Integers, Sequences, FiniteSets, TLC

(***************************************************************************)
(* Bounds of the model.                                                    *)
(***************************************************************************)
MaxImages == 2
NumFilters == 2
MaxIdatLen == 2
MaxOverhead == 1
MaxDataLen == 2
MaxSetCalls == 1

(* usize::MAX of evaluate.rs:44, at the integer width of the model.        *)
USIZE_MAX == 2147483647

VARIABLES
    \* ---- Evaluator (src/src/evaluate.rs) ----
    calls,                \* the images handed to try_image, in call order
    nth,                  \* Evaluator::nth
    executed,             \* Evaluator::executed
    best_candidate_size,  \* Evaluator::best_candidate_size (AtomicMin)
    eval_channel,         \* the messages in flight in Evaluator::eval_channel
    senders,              \* live Sender handles of eval_channel
    imgTask,              \* position of the closure spawned by each try_image
    trial,                \* position of each (image, filter) trial
    mainPc,               \* position of the thread owning the Evaluator
    nthSeen,              \* `nth` local of get_best_candidate
    acc,                  \* accumulator of min_by_key in get_best_candidate
    result,               \* value returned by get_best_candidate
    deadline_passed,      \* Deadline::passed()
    set_sizes,            \* history: the values passed to set_best_size
    sent                  \* history: every candidate sent on the channel

VARIABLES
    \* ---- RowFilter::filter_line / unfilter_line (src/src/filters.rs) ----
    f_pc,                 \* "off", "input", "filtered" or "unfiltered"
    f_self,               \* the RowFilter, as its u8 code
    f_bpp,                \* bpp
    f_alpha,              \* alpha_bytes
    f_data0,              \* history: `data` as passed to filter_line
    f_data,               \* `data` (filter_line takes it as &mut)
    f_prev,               \* prev_line
    f_buf,                \* `buf` written by filter_line
    f_out                 \* `buf` written by unfilter_line

filterVars == <<f_pc, f_self, f_bpp, f_alpha, f_data0, f_data, f_prev, f_buf, f_out>>

VARIABLES
    \* ---- Reductions (src/src/reduction/mod.rs) ----
    png,                  \* the current PngImage
    png_before,           \* history: the image the last reduction was given
    last_reduction,       \* history: the last reduction that returned Some
    produced              \* history: some reduction has returned an image

redVars == <<png, png_before, last_reduction, produced>>

evalVars == <<calls, nth, executed, best_candidate_size, eval_channel, senders,
              imgTask, trial, mainPc, nthSeen, acc, result, deadline_passed,
              set_sizes, sent>>

VARIABLES
    \* ---- optimize (src/src/lib.rs) ----
    o_pc,                 \* position in optimize: "off", "start", "reduce", "trials",
                          \*   "output", "write", "returned"
    opts,                 \* the Options
    in_file,              \* the input file: decodable, size, IDAT length, interlacing
    o_png,                \* `png`: idat_data.len() and ihdr_data.interlaced
    something_changed,    \* `something_changed`
    trials_run,           \* joined results of the recompression trials
    best,                 \* `best`: None or Some(length of its IDAT stream)
    output_len,           \* output_data.len(), once png.output() has run
    files,                \* what optimize has written: out_file, backup, stdout
    o_ret,                \* the value optimize returned: "none", "Ok" or "Err"
    accepted              \* history: the reductions that returned true

optVars == <<o_pc, opts, in_file, o_png, something_changed, trials_run, best,
             output_len, files, o_ret, accepted>>

VARIABLES
    \* ---- optimize_with and its min_gain threshold ----
    w_pc,                 \* "off", "start", "optimized" or "returned"
    w_in_size,            \* length of the input file
    w_min_gain,           \* None, Some(<<"Bytes", n>>) or Some(<<"Ratio", percent>>)
    w_out,                \* OutFile: "in_place" (path: None) or "path"
    w_opt_size,           \* length of the optimized bytes
    w_files,              \* content of the input path and of the output path
    w_ret                 \* None or Some(<<input_size, output_size>>)

withVars == <<w_pc, w_in_size, w_min_gain, w_out, w_opt_size, w_files, w_ret>>

(* ---- deflate (src/src/deflate/deflater.rs): position ("off", "call", "done"), data.len(), length of the compressor's stream, max_size.get(), and the PngResult returned ---- *)
VARIABLES d_pc, d_data_len, d_len, d_max_size, d_ret

deflVars == <<d_pc, d_data_len, d_len, d_max_size, d_ret>>

(* ---- Options::from_preset (src/src/options.rs): the level given (None before the call is set up) and the Options returned ---- *)
VARIABLES pr_level, pr_opts

presetVars == <<pr_level, pr_opts>>

(* ---- main (src/src/main.rs): position ("off", "process", "stats", "exited"), `files`, `results` (None while a file is not processed), the two counters of the statistics and the ExitCode ---- *)
VARIABLES m_pc, m_files, m_results, num_succeeded, num_failed, m_exit

mainVars == <<m_pc, m_files, m_results, num_succeeded, num_failed, m_exit>>

(* ---- the Evaluator on a rayon thread pool: position of the caller ("off", "open", "wait", "yield", "recv", "returned"), whether the caller is worker 1 of the pool, the number of workers, `nth`, `executed`, the Senders alive, the `nth` read by get_best_candidate, and per spawned task its position ("none", "pending", "running", "done") and the worker that runs it (0: none) ---- *)
VARIABLES pl_pc, pl_in_pool, pl_workers, pl_nth, pl_executed, pl_senders, pl_nth_seen, pl_task, pl_thread

poolVars == <<pl_pc, pl_in_pool, pl_workers, pl_nth, pl_executed, pl_senders, pl_nth_seen, pl_task, pl_thread>>

(* ---- paeth_predictor (src/src/filters.rs): its arguments a (left), b (up), c (upleft) and the byte returned, None before the call ---- *)
VARIABLES pth_a, pth_b, pth_c, pth_ret

paethVars == <<pth_a, pth_b, pth_c, pth_ret>>

(* ---- reduce_color_type (src/src/reduction/mod.rs) step by step: position ("off", "rgba", "grayscale_alpha", "rgb", "palette", "bit_depth", "match", "returned"), the argument `png`, the record of `reduced` (its image, whether the Cow is Owned) and should_reduce_bit_depth, and the history of the reductions called with whether each returned Some ---- *)
VARIABLES c_pc, c_png, c_st, c_log

cascVars == <<c_pc, c_png, c_st, c_log>>

(* Frame (src/src/apng.rs): the frame, the sequence number given, the bytes built, the bytes parsed, the result of parsing *)
VARIABLES a_pc, a_frame, a_n, a_bytes, a_in, a_res

apngVars == <<a_pc, a_frame, a_n, a_bytes, a_in, a_res>>

nonEvalVars == <<filterVars, redVars, optVars, withVars, deflVars, presetVars, mainVars, poolVars, paethVars, cascVars, apngVars>>
nonFilterVars == <<evalVars, redVars, optVars, withVars, deflVars, presetVars, mainVars, poolVars, paethVars, cascVars, apngVars>>
nonRedVars == <<evalVars, filterVars, optVars, withVars, deflVars, presetVars, mainVars, poolVars, paethVars, cascVars, apngVars>>
nonOptVars == <<evalVars, filterVars, redVars, withVars, deflVars, presetVars, mainVars, poolVars, paethVars, cascVars, apngVars>>
nonWithVars == <<evalVars, filterVars, redVars, optVars, deflVars, presetVars, mainVars, poolVars, paethVars, cascVars, apngVars>>
nonDeflVars == <<evalVars, filterVars, redVars, optVars, withVars, presetVars, mainVars, poolVars, paethVars, cascVars, apngVars>>
nonPresetVars == <<evalVars, filterVars, redVars, optVars, withVars, deflVars, mainVars, poolVars, paethVars, cascVars, apngVars>>
nonMainVars == <<evalVars, filterVars, redVars, optVars, withVars, deflVars, presetVars, poolVars, paethVars, cascVars, apngVars>>
nonPoolVars == <<evalVars, filterVars, redVars, optVars, withVars, deflVars, presetVars, mainVars, paethVars, cascVars, apngVars>>
nonPaethVars == <<evalVars, filterVars, redVars, optVars, withVars, deflVars, presetVars, mainVars, poolVars, cascVars, apngVars>>
nonCascVars == <<evalVars, filterVars, redVars, optVars, withVars, deflVars, presetVars, mainVars, poolVars, paethVars, apngVars>>
nonApngVars == <<evalVars, filterVars, redVars, optVars, withVars, deflVars, presetVars, mainVars, poolVars, paethVars, cascVars>>

vars == <<evalVars, filterVars, redVars, optVars, withVars, deflVars, presetVars, mainVars, poolVars, paethVars, cascVars, apngVars>>

(***************************************************************************)
(* Option<T>: None is the empty tuple, Some(x) the one-element tuple.      *)
(***************************************************************************)
None == <<>>
Some(x) == <<x>>
IsSome(o) == o # <<>>
Unwrap(o) == o[1]

Min2(a, b) == IF a <= b THEN a ELSE b

(***************************************************************************)
(* Row filters (src/src/filters.rs)                                        *)
(***************************************************************************)
MaxRowLen == 3
MaxBpp == 2

(* The byte values the rows are drawn from. *)
ByteSamples == {0, 128, 255}

(* RowFilter as u8 *)
RF_None == 0
RF_Sub == 1
RF_Up == 2
RF_Average == 3
RF_Paeth == 4
RowFilterALL == {RF_None, RF_Sub, RF_Up, RF_Average, RF_Paeth}

(* u8::wrapping_sub, u8::wrapping_add *)
wrapping_sub(a, b) == (a - b + 256) % 256
wrapping_add(a, b) == (a + b) % 256

Abs(x) == IF x < 0 THEN -x ELSE x

(* Variant: on equal distances upleft is preferred to left *)
paeth_predictor_UpleftOnTie(a, b, c) ==
    LET p == a + b - c
        pa == Abs(p - a)
        pb == Abs(p - b)
        pc == Abs(p - c)
    IN  IF pa <= pb /\ pa < pc THEN a
        ELSE IF pb <= pc THEN b
        ELSE c

paeth_predictor(a, b, c) ==
    LET p == a + b - c
        pa == Abs(p - a)
        pb == Abs(p - b)
        pc == Abs(p - c)
    IN  IF pa <= pb /\ pa <= pc THEN a
        ELSE IF pb <= pc THEN b
        ELSE c

(* slice.get(x) for a 0-based x: None past the end *)
Get(s, x) == IF x >= 0 /\ x < Len(s) THEN Some(s[x + 1]) ELSE None

(* Variant: Average forms the sum of left and up in 8 bits *)
filter_byte_AverageWraps(self, bpp, data, prev_line, i) ==
    LET byte == data[i + 1]
    IN  CASE self = RF_None -> byte
          [] self = RF_Sub ->
                IF i < bpp THEN byte ELSE wrapping_sub(byte, data[i - bpp + 1])
          [] self = RF_Up -> wrapping_sub(byte, prev_line[i + 1])
          [] self = RF_Average ->
                wrapping_sub(byte,
                    IF i - bpp < 0 THEN prev_line[i + 1] \div 2
                    ELSE ((data[i - bpp + 1] + prev_line[i + 1]) % 256) \div 2)
          [] self = RF_Paeth ->
                wrapping_sub(byte,
                    IF i - bpp < 0 THEN prev_line[i + 1]
                    ELSE paeth_predictor(data[i - bpp + 1], prev_line[i + 1],
                                         prev_line[i - bpp + 1]))

(* Variant: Sub subtracts the neighbouring byte, not the byte bpp back *)
filter_byte_SubNeighbour(self, bpp, data, prev_line, i) ==
    IF self = RF_Sub /\ i >= 1 THEN wrapping_sub(data[i + 1], data[i])
    ELSE data[i + 1]

(* The byte filter_line pushes for the 0-based position i of data
   (filters.rs:108-144). *)
filter_byte(self, bpp, data, prev_line, i) ==
    LET byte == data[i + 1]
    IN  CASE self = RF_None -> byte
          [] self = RF_Sub ->
                IF i < bpp THEN byte ELSE wrapping_sub(byte, data[i - bpp + 1])
          [] self = RF_Up -> wrapping_sub(byte, prev_line[i + 1])
          [] self = RF_Average ->
                wrapping_sub(byte,
                    IF i - bpp < 0 THEN prev_line[i + 1] \div 2
                    ELSE ((data[i - bpp + 1] + prev_line[i + 1]) \div 2) % 256)
          [] self = RF_Paeth ->
                wrapping_sub(byte,
                    IF i - bpp < 0 THEN prev_line[i + 1]
                    ELSE paeth_predictor(data[i - bpp + 1], prev_line[i + 1],
                                         prev_line[i - bpp + 1]))

(* `buf` after the match of filter_line, for the data left by optimize_alpha. *)
filtered_buf(self, bpp, data, prev_line) ==
    <<self>> \o [i \in 1..Len(data) |-> filter_byte(self, bpp, data, prev_line, i - 1)]

(* pixels[i][j] of data.chunks_exact(bpp), 0-based *)
PixelByte(data, bpp, i, j) == data[i * bpp + j + 1]

(* Variant: the test reads the color bytes (take) instead of the alpha bytes *)
IsTransparent_Take(data, bpp, color_bytes, i) ==
    \A j \in 0..(color_bytes - 1) : PixelByte(data, bpp, i, j) = 0

(* `pixels[i].iter().skip(color_bytes).all(|b| *b == 0)` *)
IsTransparent(data, bpp, color_bytes, i) ==
    \A j \in color_bytes..(bpp - 1) : PixelByte(data, bpp, i, j) = 0

(* `prev` of optimize_alpha (filters.rs:160-166) *)
AlphaPrev(data, bpp, color_bytes, i) ==
    IF i = 0
    THEN LET opaque == {k \in 0..((Len(data) \div bpp) - 1) :
                           ~IsTransparent(data, bpp, color_bytes, k)}
         IN  IF opaque = {} THEN i
             ELSE CHOOSE k \in opaque : \A m \in opaque : k <= m
    ELSE i - 1

(* The value optimize_alpha stores in pixels[i][j] of a transparent pixel
   (filters.rs:172-217). *)
AlphaByte(self, bpp, data, prev_line, color_bytes, i, j) ==
    LET prev == AlphaPrev(data, bpp, color_bytes, i)
    IN  CASE self = RF_Sub -> PixelByte(data, bpp, prev, j)
          [] self = RF_Up -> PixelByte(prev_line, bpp, i, j)
          [] self = RF_Average ->
                IF i = 0 THEN PixelByte(prev_line, bpp, i, j) \div 2
                ELSE ((PixelByte(data, bpp, i - 1, j) + PixelByte(prev_line, bpp, i, j))
                        \div 2) % 256
          [] self = RF_Paeth ->
                IF i = 0 THEN Min2(PixelByte(data, bpp, prev, j), PixelByte(prev_line, bpp, i, j))
                ELSE paeth_predictor(PixelByte(data, bpp, i - 1, j),
                                     PixelByte(prev_line, bpp, i, j),
                                     PixelByte(prev_line, bpp, i - 1, j))

(* The loop `for i in 0..pixels.len()` of optimize_alpha, from pixel i on. *)
RECURSIVE optimize_alpha_from(_, _, _, _, _, _)
optimize_alpha_from(self, bpp, data, prev_line, color_bytes, i) ==
    IF i >= Len(data) \div bpp THEN data
    ELSE optimize_alpha_from(self, bpp,
            IF IsTransparent(data, bpp, color_bytes, i)
            THEN [k \in 1..Len(data) |->
                    IF k - 1 >= i * bpp /\ k - 1 < i * bpp + color_bytes
                    THEN AlphaByte(self, bpp, data, prev_line, color_bytes, i, k - 1 - i * bpp)
                    ELSE data[k]]
            ELSE data,
            prev_line, color_bytes, i + 1)

(* RowFilter::optimize_alpha: `data` on return *)
optimize_alpha(self, bpp, data, prev_line, color_bytes) ==
    IF self = RF_None THEN data
    ELSE optimize_alpha_from(self, bpp, data, prev_line, color_bytes, 0)

(* `data` after filter_line (filters.rs:101-103) *)
filter_line_data(self, bpp, data, prev_line, alpha_bytes) ==
    IF alpha_bytes # 0 THEN optimize_alpha(self, bpp, data, prev_line, bpp - alpha_bytes)
    ELSE data

(* `buf` after filter_line *)
filter_line(self, bpp, data, prev_line, alpha_bytes) ==
    filtered_buf(self, bpp, filter_line_data(self, bpp, data, prev_line, alpha_bytes), prev_line)

(* The byte unfilter_line pushes for the 0-based position i, given the bytes
   already in buf (filters.rs:233-274). *)
unfilter_byte(self, bpp, data, prev_line, buf, i) ==
    LET cur == data[i + 1]
        prev_byte == IF i - bpp < 0 THEN None ELSE Get(buf, i - bpp)
    IN  CASE self = RF_None -> cur
          [] self = RF_Sub ->
                IF IsSome(prev_byte) THEN wrapping_add(cur, Unwrap(prev_byte)) ELSE cur
          [] self = RF_Up -> wrapping_add(cur, prev_line[i + 1])
          [] self = RF_Average ->
                wrapping_add(cur,
                    IF IsSome(prev_byte)
                    THEN ((Unwrap(prev_byte) + prev_line[i + 1]) \div 2) % 256
                    ELSE prev_line[i + 1] \div 2)
          [] self = RF_Paeth ->
                IF i - bpp >= 0 /\ IsSome(Get(buf, i - bpp)) /\ IsSome(Get(prev_line, i - bpp))
                THEN wrapping_add(cur, paeth_predictor(Unwrap(Get(buf, i - bpp)),
                                                       prev_line[i + 1],
                                                       Unwrap(Get(prev_line, i - bpp))))
                ELSE wrapping_add(cur, prev_line[i + 1])

RECURSIVE unfilter_from(_, _, _, _, _)
unfilter_from(self, bpp, data, prev_line, buf) ==
    IF Len(buf) >= Len(data) THEN buf
    ELSE unfilter_from(self, bpp, data, prev_line,
                       Append(buf, unfilter_byte(self, bpp, data, prev_line, buf, Len(buf))))

(* RowFilter::unfilter_line: `buf` on return *)
unfilter_line(self, bpp, data, prev_line) == unfilter_from(self, bpp, data, prev_line, <<>>)

FilterOff ==
    /\ f_pc = "off"
    /\ f_self = RF_None
    /\ f_bpp = 1
    /\ f_alpha = 0
    /\ f_data0 = <<>>
    /\ f_data = <<>>
    /\ f_prev = <<>>
    /\ f_buf = <<>>
    /\ f_out = <<>>

Rows(len) == [1..len -> ByteSamples]

(* The arguments of a filter_line call that passes its assertions:
   data.len() >= bpp and data.len() == prev_line.len(). *)
FilterInit ==
    /\ f_pc = "input"
    /\ f_self \in RowFilterALL
    /\ f_bpp \in 1..MaxBpp
    /\ f_alpha \in 0..(f_bpp - 1)
    /\ \E len \in 1..MaxRowLen :
          /\ len >= f_bpp
          /\ f_data \in Rows(len)
          /\ f_prev \in Rows(len)
    /\ f_data0 = f_data
    /\ f_buf = <<>>
    /\ f_out = <<>>

MaxAlphaPixels == 3

(* Scanlines of n pixels of one color byte and one alpha byte (GrayscaleAlpha
   of depth 8): the colors from ByteSamples, the alpha bytes 0 or 255. *)
AlphaRows(n, alphas) ==
    {r \in [1..(2 * n) -> ByteSamples] : \A k \in 1..n : r[2 * k] \in alphas}

(* The arguments of a filter_line call with alpha optimization for such a
   scanline: bpp = 2, alpha_bytes = 1; the previous scanline is opaque. *)
AlphaInit ==
    /\ f_pc = "input"
    /\ f_self \in RowFilterALL
    /\ f_bpp = 2
    /\ f_alpha = 1
    /\ \E n \in 1..MaxAlphaPixels :
          /\ f_data \in AlphaRows(n, {0, 255})
          /\ f_prev \in AlphaRows(n, {255})
    /\ f_data0 = f_data
    /\ f_buf = <<>>
    /\ f_out = <<>>

(* RowFilter::filter_line *)
FilterLine ==
    /\ f_pc = "input"
    /\ Len(f_data) >= f_bpp
    /\ Len(f_data) = Len(f_prev)
    /\ f_data' = filter_line_data(f_self, f_bpp, f_data, f_prev, f_alpha)
    /\ f_buf' = filter_line(f_self, f_bpp, f_data, f_prev, f_alpha)
    /\ f_pc' = "filtered"
    /\ UNCHANGED <<nonFilterVars, f_self, f_bpp, f_alpha, f_data0, f_prev, f_out>>

(* RowFilter::unfilter_line on the filtered line without its filter byte *)
UnfilterLine ==
    /\ f_pc = "filtered"
    /\ f_out' = unfilter_line(f_self, f_bpp, Tail(f_buf), f_prev)
    /\ f_pc' = "unfiltered"
    /\ UNCHANGED <<nonFilterVars, f_self, f_bpp, f_alpha, f_data0, f_data, f_prev, f_buf>>

NextFilter ==
    \/ FilterLine
    \/ UnfilterLine

(***************************************************************************)
(* Palette reduction (src/src/reduction/mod.rs)                            *)
(***************************************************************************)
MaxPaletteLen == 3
MaxWidth == 2

(* RGBA8 values <<r, g, b, a>> the palettes and pixels are drawn from. *)
ColorSamples == {<<0, 0, 0, 255>>, <<255, 255, 255, 255>>, <<0, 0, 0, 0>>}

(* RGBA8::new(0, 0, 0, 255) *)
OpaqueBlack == <<0, 0, 0, 255>>

Pow2(n) == 2 ^ n

(* u8 `|` *)
RECURSIVE BitOr(_, _)
BitOr(a, b) ==
    IF a = 0 THEN b
    ELSE IF b = 0 THEN a
    ELSE (IF a % 2 = 1 \/ b % 2 = 1 THEN 1 ELSE 0) + 2 * BitOr(a \div 2, b \div 2)

(* u8 `<<` *)
Shl8(a, k) == (a * Pow2(k)) % 256

(* The palette indices `used[..] = true` marks for one byte
   (reduction/mod.rs:40-61). *)
UsedInByte(byte, bit_depth) ==
    CASE bit_depth = 8 -> {byte}
      [] bit_depth = 4 -> {byte % 16, byte \div 16}
      [] bit_depth = 2 -> {byte % 4, (byte \div 4) % 4, (byte \div 16) % 4, byte \div 64}

(* `used` after the scan of every line *)
UsedIndices(image) ==
    UNION {UsedInByte(image.lines[l].data[k], image.ihdr.bit_depth) :
              l \in 1..Len(image.lines), k \in 1..Len(image.lines[1].data)}

(* palette.get(i).copied().unwrap_or_else(|| RGBA8::new(0, 0, 0, 255)) *)
PaletteGet(palette, i) == IF i < Len(palette) THEN palette[i + 1] ELSE OpaqueBlack

(* `color_val` of the sort (reduction/mod.rs:67-75) *)
color_val(palette, i) ==
    LET color == PaletteGet(palette, i)
    IN  color[4] * 262144 - color[1] * 299 - color[2] * 587 - color[3] * 114

(* The used entries of `used_enumerated` after the stable sort_by, in order:
   unused entries are skipped by the loop that follows. *)
RECURSIVE SortedUsed(_, _)
SortedUsed(palette, S) ==
    IF S = {} THEN <<>>
    ELSE LET m == CHOOSE i \in S : \A j \in S :
                     \/ color_val(palette, i) < color_val(palette, j)
                     \/ color_val(palette, i) = color_val(palette, j) /\ i <= j
         IN  <<m>> \o SortedUsed(palette, S \ {m})

(* Position of a color in `seen`, as the index it was given. *)
SeenIndex(seen, color) == (CHOOSE k \in 1..Len(seen) : seen[k] = color) - 1

(* The loop of reduction/mod.rs:81-101 from position k of the sorted list;
   `seen` lists the colors in the order next_index numbered them. *)
RECURSIVE AssignMap(_, _, _, _, _)
AssignMap(palette, sorted, k, palette_map, seen) ==
    IF k > Len(sorted) THEN palette_map
    ELSE LET i == sorted[k]
             color == PaletteGet(palette, i)
         IN  IF \E x \in 1..Len(seen) : seen[x] = color
             THEN AssignMap(palette, sorted, k + 1,
                            (i :> SeenIndex(seen, color)) @@ palette_map, seen)
             ELSE AssignMap(palette, sorted, k + 1,
                            (i :> (Len(seen) % 256)) @@ palette_map,
                            Append(seen, color))

(* `let mut palette_map = [None; 256];`: the array is held as the function
   from the indices that are Some to their values. *)
EmptyPaletteMap == [i \in {} |-> 0]

(* palette_map[i] *)
MapAt(palette_map, i) == IF i \in DOMAIN palette_map THEN Some(palette_map[i]) ELSE None

(* `palette_map` as reduced_palette hands it to do_palette_reduction *)
PaletteMap(image) ==
    AssignMap(Unwrap(image.palette),
              SortedUsed(Unwrap(image.palette), UsedIndices(image)), 1,
              EmptyPaletteMap, <<>>)

(* palette_map[..].unwrap_or(0) *)
MapOr0(palette_map, i) ==
    IF IsSome(MapAt(palette_map, i)) THEN Unwrap(MapAt(palette_map, i)) ELSE 0

(* Variant: only the low-order index of a packed byte is remapped *)
byte_map_LowOnly(palette_map, bit_depth, byte) ==
    CASE bit_depth = 8 -> MapOr0(palette_map, byte)
      [] bit_depth = 4 -> BitOr(MapOr0(palette_map, byte % 16), (byte \div 16) * 16)
      [] bit_depth = 2 -> BitOr(MapOr0(palette_map, byte % 4), (byte \div 4) * 4)
      [] OTHER -> 0

(* `byte_map[byte]` of palette_map_to_byte_map (reduction/mod.rs:149-173) *)
byte_map(palette_map, bit_depth, byte) ==
    CASE bit_depth = 8 -> MapOr0(palette_map, byte)
      [] bit_depth = 4 ->
            BitOr(MapOr0(palette_map, byte % 16),
                  Shl8(MapOr0(palette_map, byte \div 16), 4))
      [] bit_depth = 2 ->
            BitOr(BitOr(BitOr(MapOr0(palette_map, byte % 4),
                              Shl8(MapOr0(palette_map, (byte \div 4) % 4), 2)),
                        Shl8(MapOr0(palette_map, (byte \div 16) % 4), 4)),
                  Shl8(MapOr0(palette_map, byte \div 64), 6))
      [] OTHER -> 0

(* palette_map_to_byte_map returns None: "No reduction necessary" *)
NoReductionNecessary(image, palette_map) ==
    \A i \in 0..(Len(Unwrap(image.palette)) - 1) :
        (~IsSome(MapAt(palette_map, i))) \/ Unwrap(MapAt(palette_map, i)) = i % 256

(* `max_index` of reordered_palette *)
MaxMapped(palette_map) ==
    LET S == {palette_map[i] : i \in DOMAIN palette_map}
    IN  IF S = {} THEN 0 ELSE CHOOSE m \in S : \A x \in S : m >= x

(* Variant: the new palette is one entry short *)
ReorderedLen_MaxIndex(palette_map) == MaxMapped(palette_map)

(* Length of the palette reordered_palette allocates *)
ReorderedLen(palette_map) == MaxMapped(palette_map) + 1

(* reordered_palette: the zip writes the entries in palette order, so the
   last palette entry mapped to a slot is the one that stays. *)
reordered_palette(palette, palette_map) ==
    [m \in 1..ReorderedLen(palette_map) |->
        LET src == {i \in 0..(Len(palette) - 1) :
                       i <= 255 /\ MapAt(palette_map, i) = Some(m - 1)}
        IN  IF src = {} THEN OpaqueBlack
            ELSE palette[(CHOOSE i \in src : \A j \in src : i >= j) + 1]]

(* The bKGD handling of do_palette_reduction (reduction/mod.rs:120-128);
   bkgd is None or Some(first byte of the chunk). *)
RemapBkgd(bkgd, palette_map) ==
    IF IsSome(bkgd) /\ IsSome(MapAt(palette_map, Unwrap(bkgd)))
    THEN MapAt(palette_map, Unwrap(bkgd))
    ELSE bkgd

(* do_palette_reduction, given that a byte map exists *)
do_palette_reduction(image, palette_map) ==
    [ihdr |-> [image.ihdr EXCEPT !.color_type = "Indexed"],
     lines |-> [l \in 1..Len(image.lines) |->
                  [filter |-> image.lines[l].filter,
                   data |-> [k \in 1..Len(image.lines[l].data) |->
                              byte_map(palette_map, image.ihdr.bit_depth,
                                       image.lines[l].data[k])]]],
     transparency_pixel |-> None,
     palette |-> Some(reordered_palette(Unwrap(image.palette), palette_map)),
     bkgd |-> RemapBkgd(image.bkgd, palette_map)]

(* reduced_palette: None, or Some(the reduced image) *)
reduced_palette(image) ==
    IF image.ihdr.color_type # "Indexed" THEN None
    ELSE IF image.ihdr.bit_depth = 1 THEN None
    ELSE IF ~IsSome(image.palette) THEN None
    ELSE LET palette_map == PaletteMap(image)
         IN  IF NoReductionNecessary(image, palette_map) THEN None
             ELSE Some(do_palette_reduction(image, palette_map))

(* The palette index of the 0-based pixel x of a scanline, the leftmost
   pixel in the high-order bits of a byte. *)
IndexAt(data, bit_depth, x) ==
    LET per == 8 \div bit_depth
        byte == data[(x \div per) + 1]
    IN  (byte \div Pow2(8 - bit_depth * ((x % per) + 1))) % Pow2(bit_depth)

(* The byte b (0-based) of a scanline of pixel values packed at bit_depth,
   from its k-th pixel on; missing pixels are zero padding bits. *)
RECURSIVE PackByte(_, _, _, _)
PackByte(pixels, bit_depth, b, k) ==
    IF k >= 8 \div bit_depth THEN 0
    ELSE (IF b * (8 \div bit_depth) + k < Len(pixels)
          THEN pixels[b * (8 \div bit_depth) + k + 1] * Pow2(8 - bit_depth * (k + 1))
          ELSE 0)
         + PackByte(pixels, bit_depth, b, k + 1)

(* A scanline of pixel values packed at bit_depth. *)
PackLine(pixels, bit_depth) ==
    [b \in 1..((Len(pixels) + (8 \div bit_depth) - 1) \div (8 \div bit_depth)) |->
        PackByte(pixels, bit_depth, b - 1, 0)]

(* The RGBA color of the 0-based pixel x of line l. *)
DecodedPixel(image, l, x) ==
    IF image.ihdr.color_type = "Indexed"
    THEN PaletteGet(Unwrap(image.palette),
                    IndexAt(image.lines[l].data, image.ihdr.bit_depth, x))
    ELSE IF image.ihdr.color_type = "RGB"
    THEN LET c == <<image.lines[l].data[3 * x + 1], image.lines[l].data[3 * x + 2],
                    image.lines[l].data[3 * x + 3]>>
         IN  <<c[1], c[2], c[3], IF image.transparency_pixel = Some(c) THEN 0 ELSE 255>>
    ELSE IF image.ihdr.color_type = "GrayscaleAlpha"
    THEN <<image.lines[l].data[2 * x + 1], image.lines[l].data[2 * x + 1],
           image.lines[l].data[2 * x + 1], image.lines[l].data[2 * x + 2]>>
    ELSE IF image.ihdr.color_type = "Grayscale"
    THEN LET v == IndexAt(image.lines[l].data, image.ihdr.bit_depth, x)
             g == v * (255 \div (Pow2(image.ihdr.bit_depth) - 1))
         IN  <<g, g, g, IF image.transparency_pixel = Some(<<v>>) THEN 0 ELSE 255>>
    ELSE <<image.lines[l].data[4 * x + 1], image.lines[l].data[4 * x + 2],
           image.lines[l].data[4 * x + 3], image.lines[l].data[4 * x + 4]>>

(* The distinct colors of a pixel sequence in order of first appearance. *)
RECURSIVE DistinctColors(_, _)
DistinctColors(pixels, acc0) ==
    IF pixels = <<>> THEN acc0
    ELSE DistinctColors(Tail(pixels),
            IF \E k \in 1..Len(acc0) : acc0[k] = Head(pixels) THEN acc0
            ELSE Append(acc0, Head(pixels)))

(* reduced_color_to_palette, RGBA or RGB -> Indexed iff distinct colors <= 256,
   after the description of the color-type reduction. *)
reduced_color_to_palette(image) ==
    IF image.ihdr.color_type \notin {"RGBA", "RGB"} \/ image.ihdr.bit_depth # 8 THEN None
    ELSE LET pal == DistinctColors(
                      [x \in 1..(image.ihdr.width * image.ihdr.height) |->
                          DecodedPixel(image, ((x - 1) \div image.ihdr.width) + 1,
                                       (x - 1) % image.ihdr.width)], <<>>)
         IN  IF Len(pal) > 256 THEN None
             ELSE Some([ihdr |-> [image.ihdr EXCEPT !.color_type = "Indexed"],
                        lines |-> [l \in 1..Len(image.lines) |->
                                     [filter |-> image.lines[l].filter,
                                      data |-> [x \in 1..image.ihdr.width |->
                                                  SeenIndex(pal, DecodedPixel(image, l, x - 1))]]],
                        transparency_pixel |-> None,
                        palette |-> Some(pal),
                        bkgd |-> image.bkgd])

(* Smallest bit depth of {1, 2, 4, 8} with 2^d >= palette.len() *)
MinDepthFor(len) == CHOOSE d \in {1, 2, 4, 8} :
                        Pow2(d) >= len /\ \A e \in {1, 2, 4, 8} : Pow2(e) >= len => d <= e

(* Every pixel slot of the data holds an index below the palette length. *)
IndicesInRange(image) ==
    \A l \in 1..Len(image.lines) :
        \A x \in 0..((Len(image.lines[l].data) * (8 \div image.ihdr.bit_depth)) - 1) :
            IndexAt(image.lines[l].data, image.ihdr.bit_depth, x) < Len(Unwrap(image.palette))

(* Bit-depth reduction of an Indexed image, after the description of the
   bit-depth reduction: the scanlines are repacked at the smallest depth
   that holds the palette. *)
reduce_bit_depth(image) ==
    IF image.ihdr.color_type # "Indexed" \/ ~IsSome(image.palette) THEN None
    ELSE IF ~IndicesInRange(image) THEN None
    ELSE LET d == MinDepthFor(Len(Unwrap(image.palette)))
         IN  IF d >= image.ihdr.bit_depth THEN None
             ELSE Some([image EXCEPT
                    !.ihdr.bit_depth = d,
                    !.lines = [l \in 1..Len(image.lines) |->
                                 [filter |-> image.lines[l].filter,
                                  data |-> PackLine(
                                      [x \in 1..image.ihdr.width |->
                                          IndexAt(image.lines[l].data,
                                                  image.ihdr.bit_depth, x - 1)], d)]]])

NoImage == [ihdr |-> [color_type |-> "none", bit_depth |-> 8, width |-> 0, height |-> 0],
            lines |-> <<>>, transparency_pixel |-> None, palette |-> None, bkgd |-> None]

RedOff ==
    /\ png = NoImage
    /\ png_before = NoImage
    /\ last_reduction = "none"
    /\ produced = FALSE

(* An Indexed image as the decoder hands it over: one scanline of pixel
   indices px over the palette pal, with a bKGD index or none. *)
IndexedInput(d, pal, px, bk) ==
    [ihdr |-> [color_type |-> "Indexed", bit_depth |-> d, width |-> Len(px), height |-> 1],
     lines |-> <<[filter |-> 0, data |-> PackLine(px, d)]>>,
     transparency_pixel |-> None,
     palette |-> Some(pal),
     bkgd |-> bk]

(* An 8-bit RGBA image of one scanline of the pixels px. *)
RGBAInput(px) ==
    [ihdr |-> [color_type |-> "RGBA", bit_depth |-> 8, width |-> Len(px), height |-> 1],
     lines |-> <<[filter |-> 0,
                  data |-> [k \in 1..(4 * Len(px)) |->
                              px[((k - 1) \div 4) + 1][((k - 1) % 4) + 1]]]>>,
     transparency_pixel |-> None,
     palette |-> None,
     bkgd |-> None]

(* The input images: indices may lie one beyond the palette end ("invalid
   files that use pixel indices beyond palette size"); bKGD names the first
   or the last palette entry or the index beyond the end. *)
RedInit ==
    /\ \/ \E w \in 1..MaxWidth, n \in 1..MaxPaletteLen, d \in {1, 2, 4, 8} :
             /\ n <= Pow2(d)
             /\ \E pal \in [1..n -> ColorSamples],
                   px \in [1..w -> 0..Min2(n, Pow2(d) - 1)],
                   bk \in {None} \cup {Some(i) : i \in {0, n - 1, n}} :
                   png = IndexedInput(d, pal, px, bk)
       \/ \E w \in 1..MaxWidth :
             \E px \in [1..w -> ColorSamples] : png = RGBAInput(px)
    /\ png_before = NoImage
    /\ last_reduction = "none"
    /\ produced = FALSE

(* reduced_palette returned Some *)
ReducePalette ==
    /\ LET reduced == reduced_palette(png)
       IN  IsSome(reduced) /\ png' = Unwrap(reduced)
    /\ png_before' = png
    /\ last_reduction' = "palette"
    /\ produced' = TRUE
    /\ UNCHANGED nonRedVars

(* reduced_color_to_palette returned Some *)
ColorToPalette ==
    /\ LET reduced == reduced_color_to_palette(png)
       IN  IsSome(reduced) /\ png' = Unwrap(reduced)
    /\ png_before' = png
    /\ last_reduction' = "color_to_palette"
    /\ produced' = TRUE
    /\ UNCHANGED nonRedVars

(* the bit-depth reduction returned Some *)
ReduceBitDepth ==
    /\ LET reduced == reduce_bit_depth(png)
       IN  IsSome(reduced) /\ png' = Unwrap(reduced)
    /\ png_before' = png
    /\ last_reduction' = "bit_depth"
    /\ produced' = TRUE
    /\ UNCHANGED nonRedVars

NextReduce ==
    \/ ReducePalette
    \/ ColorToPalette
    \/ ReduceBitDepth

(***************************************************************************)
(* reduce_color_type (reduction/mod.rs:196-249).  The single reductions it *)
(* calls live in reduction/color.rs, alpha.rs and bit_depth.rs and follow  *)
(* the description of the color-type and bit-depth reductions.             *)
(***************************************************************************)

(* Option::or_else *)
OrElse(a, b) == IF IsSome(a) THEN a ELSE b

(* The pixels (l, x) of an image *)
PixelsOf(image) == (1..Len(image.lines)) \X (0..(image.ihdr.width - 1))

(* RGBA -> GrayscaleAlpha iff every pixel has R=G=B *)
reduce_rgba_to_grayscale_alpha(image) ==
    IF image.ihdr.color_type # "RGBA" \/ image.ihdr.bit_depth # 8 THEN None
    ELSE IF \E q \in PixelsOf(image) :
              LET c == DecodedPixel(image, q[1], q[2]) IN c[1] # c[2] \/ c[2] # c[3]
    THEN None
    ELSE Some([image EXCEPT
            !.ihdr.color_type = "GrayscaleAlpha",
            !.lines = [l \in 1..Len(image.lines) |->
                         [filter |-> image.lines[l].filter,
                          data |-> [k \in 1..(2 * image.ihdr.width) |->
                                      IF k % 2 = 1
                                      THEN image.lines[l].data[4 * ((k - 1) \div 2) + 1]
                                      ELSE image.lines[l].data[4 * ((k - 1) \div 2) + 4]]]]])

(* The color channels of pixel x (0-based) of a scanline with an alpha channel *)
ColorOf(data, channels, x) == [j \in 1..(channels - 1) |-> data[channels * x + j]]

(* RGBA -> RGB and GrayscaleAlpha -> Grayscale: iff every alpha is 0xFF, or
   a single color is fully transparent and all others fully opaque (that
   color becomes the transparency pixel). *)
reduced_alpha_channel(image) ==
    IF image.ihdr.color_type \notin {"RGBA", "GrayscaleAlpha"} \/ image.ihdr.bit_depth # 8
    THEN None
    ELSE LET channels == IF image.ihdr.color_type = "RGBA" THEN 4 ELSE 2
             AlphaAt(q) == image.lines[q[1]].data[channels * q[2] + channels]
             ColorAt(q) == ColorOf(image.lines[q[1]].data, channels, q[2])
             transparent == {ColorAt(q) : q \in {r \in PixelsOf(image) : AlphaAt(r) = 0}}
             opaque == {ColorAt(q) : q \in {r \in PixelsOf(image) : AlphaAt(r) = 255}}
             stripped(trns) ==
                 [image EXCEPT
                    !.ihdr.color_type = IF channels = 4 THEN "RGB" ELSE "Grayscale",
                    !.transparency_pixel = trns,
                    !.lines = [l \in 1..Len(image.lines) |->
                                 [filter |-> image.lines[l].filter,
                                  data |-> [k \in 1..((channels - 1) * image.ihdr.width) |->
                                              image.lines[l].data[
                                                  channels * ((k - 1) \div (channels - 1))
                                                  + ((k - 1) % (channels - 1)) + 1]]]]]
         IN  IF \E q \in PixelsOf(image) : AlphaAt(q) \notin {0, 255} THEN None
             ELSE IF transparent = {} THEN Some(stripped(None))
             ELSE IF Cardinality(transparent) = 1 /\ transparent \cap opaque = {}
             THEN Some(stripped(Some(CHOOSE c \in transparent : TRUE)))
             ELSE None

(* RGB -> Grayscale iff R=G=B for every pixel (and for the transparency pixel) *)
reduce_rgb_to_grayscale(image) ==
    IF image.ihdr.color_type # "RGB" \/ image.ihdr.bit_depth # 8 THEN None
    ELSE IF \E q \in PixelsOf(image) :
              LET c == DecodedPixel(image, q[1], q[2]) IN c[1] # c[2] \/ c[2] # c[3]
    THEN None
    ELSE IF IsSome(image.transparency_pixel)
            /\ ( Unwrap(image.transparency_pixel)[1] # Unwrap(image.transparency_pixel)[2]
                 \/ Unwrap(image.transparency_pixel)[2] # Unwrap(image.transparency_pixel)[3] )
    THEN None
    ELSE Some([image EXCEPT
            !.ihdr.color_type = "Grayscale",
            !.transparency_pixel = IF IsSome(image.transparency_pixel)
                                   THEN Some(<<Unwrap(image.transparency_pixel)[1]>>)
                                   ELSE None,
            !.lines = [l \in 1..Len(image.lines) |->
                         [filter |-> image.lines[l].filter,
                          data |-> [k \in 1..image.ihdr.width |->
                                      image.lines[l].data[3 * (k - 1) + 1]]]]])

(* reduce_bit_depth_8_or_less: for Grayscale the smallest depth of
   {1, 2, 4}, not below minimum_bits, in which every sample (and the
   transparency pixel) fits; for Indexed the depth that holds the palette. *)
reduce_bit_depth_8_or_less(image, minimum_bits) ==
    IF image.ihdr.color_type = "Indexed" THEN reduce_bit_depth(image)
    ELSE IF image.ihdr.color_type # "Grayscale" \/ image.ihdr.bit_depth # 8 THEN None
    ELSE LET samples == {image.lines[q[1]].data[q[2] + 1] : q \in PixelsOf(image)}
                          \cup (IF IsSome(image.transparency_pixel)
                                THEN {Unwrap(image.transparency_pixel)[1]} ELSE {})
             Unit(d) == 255 \div (Pow2(d) - 1)
             fitting == {d \in {1, 2, 4} :
                           d >= minimum_bits /\ \A v \in samples : v % Unit(d) = 0}
         IN  IF fitting = {} THEN None
             ELSE LET d == CHOOSE e \in fitting : \A g \in fitting : e <= g
                  IN  Some([image EXCEPT
                        !.ihdr.bit_depth = d,
                        !.transparency_pixel =
                            IF IsSome(image.transparency_pixel)
                            THEN Some(<<Unwrap(image.transparency_pixel)[1] \div Unit(d)>>)
                            ELSE None,
                        !.lines = [l \in 1..Len(image.lines) |->
                                     [filter |-> image.lines[l].filter,
                                      data |-> PackLine(
                                          [x \in 1..image.ihdr.width |->
                                              image.lines[l].data[x] \div Unit(d)], d)]]])

(* `reduced` (a Cow: borrowed or owned) and `should_reduce_bit_depth` *)
Borrowed(image) == [reduced |-> image, owned |-> FALSE, should_reduce_bit_depth |-> FALSE]

(* `reduced = Cow::Owned(r)`, with or without should_reduce_bit_depth = true *)
Owned(st, r, set_flag) ==
    [reduced |-> r, owned |-> TRUE,
     should_reduce_bit_depth |-> (st.should_reduce_bit_depth \/ set_flag)]

(* Variant: every successful step of the RGBA block sets should_reduce_bit_depth *)
rct_rgba_FlagAlways(st) ==
    IF st.reduced.ihdr.color_type # "RGBA" THEN st
    ELSE LET r == OrElse(reduce_rgba_to_grayscale_alpha(st.reduced),
                         reduced_alpha_channel(st.reduced))
         IN  IF IsSome(r) THEN Owned(st, Unwrap(r), TRUE)
             ELSE LET p == reduced_color_to_palette(st.reduced)
                  IN  IF IsSome(p) THEN Owned(st, Unwrap(p), TRUE) ELSE st

(* Variant: the palette conversion is tried before the removal of the alpha channel *)
rct_rgba_PaletteFirst(st) ==
    IF st.reduced.ihdr.color_type # "RGBA" THEN st
    ELSE LET r == reduce_rgba_to_grayscale_alpha(st.reduced)
             p == reduced_color_to_palette(st.reduced)
             a == reduced_alpha_channel(st.reduced)
         IN  IF IsSome(r) THEN Owned(st, Unwrap(r), FALSE)
             ELSE IF IsSome(p) THEN Owned(st, Unwrap(p), TRUE)
             ELSE IF IsSome(a) THEN Owned(st, Unwrap(a), FALSE) ELSE st

(* reduction/mod.rs:202-211 *)
rct_rgba(st) ==
    IF st.reduced.ihdr.color_type # "RGBA" THEN st
    ELSE LET r == OrElse(reduce_rgba_to_grayscale_alpha(st.reduced),
                         reduced_alpha_channel(st.reduced))
         IN  IF IsSome(r) THEN Owned(st, Unwrap(r), FALSE)
             ELSE LET p == reduced_color_to_palette(st.reduced)
                  IN  IF IsSome(p) THEN Owned(st, Unwrap(p), TRUE) ELSE st

(* reduction/mod.rs:213-218 *)
rct_grayscale_alpha(st) ==
    IF st.reduced.ihdr.color_type # "GrayscaleAlpha" THEN st
    ELSE LET r == reduced_alpha_channel(st.reduced)
         IN  IF IsSome(r) THEN Owned(st, Unwrap(r), TRUE) ELSE st

(* reduction/mod.rs:220-227 *)
rct_rgb(st) ==
    IF st.reduced.ihdr.color_type # "RGB" THEN st
    ELSE LET r == OrElse(reduce_rgb_to_grayscale(st.reduced),
                         reduced_color_to_palette(st.reduced))
         IN  IF IsSome(r) THEN Owned(st, Unwrap(r), TRUE) ELSE st

(* reduction/mod.rs:229-235 *)
rct_palette(st) ==
    IF ~(st.should_reduce_bit_depth /\ st.reduced.ihdr.color_type = "Indexed") THEN st
    ELSE LET r == reduced_palette(st.reduced)
         IN  IF IsSome(r) THEN Owned(st, Unwrap(r), TRUE) ELSE st

(* reduction/mod.rs:237-243 *)
rct_bit_depth(st) ==
    IF ~st.should_reduce_bit_depth THEN st
    ELSE LET r == reduce_bit_depth_8_or_less(st.reduced, 1)
         IN  IF IsSome(r) THEN Owned(st, Unwrap(r), FALSE) ELSE st

(* Variant: the steps are alternatives, one reduction of the color type per call *)
reduce_color_type_OneStep(image) ==
    LET s1 == rct_rgba(Borrowed(image))
        s3 == IF s1.owned THEN s1 ELSE rct_rgb(rct_grayscale_alpha(s1))
        st == rct_bit_depth(rct_palette(s3))
    IN  IF st.owned THEN Some(st.reduced) ELSE None

(* reduce_color_type *)
reduce_color_type(image) ==
    LET st == rct_bit_depth(rct_palette(rct_rgb(rct_grayscale_alpha(
                  rct_rgba(Borrowed(image))))))
    IN  IF st.owned THEN Some(st.reduced) ELSE None

(* The pixels of the RGBA images given to reduce_color_type: opaque grays
   that fit 1, 2 or 8 bits, a transparent and a translucent gray, a color *)
RGBASamples ==
    {<<0, 0, 0, 255>>, <<255, 255, 255, 255>>, <<85, 85, 85, 255>>, <<7, 7, 7, 255>>,
     <<7, 7, 7, 0>>, <<128, 128, 128, 128>>, <<255, 0, 0, 255>>, <<255, 0, 0, 0>>}

ColorTypeInit ==
    /\ \E w \in 1..MaxWidth : \E px \in [1..w -> RGBASamples] : png = RGBAInput(px)
    /\ png_before = NoImage
    /\ last_reduction = "none"
    /\ produced = FALSE

(* reduce_color_type returned Some *)
ReduceColorType ==
    /\ last_reduction = "none"
    /\ LET reduced == reduce_color_type(png)
       IN  IsSome(reduced) /\ png' = Unwrap(reduced)
    /\ png_before' = png
    /\ last_reduction' = "color_type"
    /\ produced' = TRUE
    /\ UNCHANGED nonRedVars

NextColorType == ReduceColorType

(***************************************************************************)
(* reduce_color_type step by step: one action per `if` of                  *)
(* reduction/mod.rs:202-248, with the reductions each of them calls.       *)
(***************************************************************************)

CascOff ==
    /\ c_pc = "off"
    /\ c_png = NoImage
    /\ c_st = Borrowed(NoImage)
    /\ c_log = <<>>

(* An 8-bit GrayscaleAlpha image of one scanline: the pixels px are grays. *)
GrayscaleAlphaInput(px) == Unwrap(reduce_rgba_to_grayscale_alpha(RGBAInput(px)))

(* The argument of reduce_color_type: an RGBA image, a GrayscaleAlpha image
   or an Indexed image of depth 8 *)
CascInit ==
    /\ c_pc = "rgba"
    /\ \E w \in 1..MaxWidth : \E px \in [1..w -> RGBASamples] :
          \/ c_png = RGBAInput(px)
          \/ /\ \A k \in 1..w : px[k][1] = px[k][2] /\ px[k][2] = px[k][3]
             /\ c_png = GrayscaleAlphaInput(px)
          \/ /\ \A k \in 1..w : px[k] \in ColorSamples
             /\ c_png = IndexedInput(8, px, [k \in 1..w |-> k - 1], None)
    /\ c_st = Borrowed(c_png)
    /\ c_log = <<>>

(* One entry of the history: the reduction called, the color type of the
   image it was called on and whether it returned Some *)
Called(name, image, r) == [fn |-> name, on |-> image.ihdr.color_type, some |-> IsSome(r)]

(* The calls of reduction/mod.rs:202-211, in the order they are made:
   or_else and `else if` call the next reduction only after a None. *)
CallsRGBA(image) ==
    LET ga == reduce_rgba_to_grayscale_alpha(image)
        al == reduced_alpha_channel(image)
        pa == reduced_color_to_palette(image)
    IN  <<Called("reduce_rgba_to_grayscale_alpha", image, ga)>>
        \o (IF IsSome(ga) THEN <<>> ELSE <<Called("reduced_alpha_channel", image, al)>>)
        \o (IF IsSome(ga) \/ IsSome(al) THEN <<>>
            ELSE <<Called("reduced_color_to_palette", image, pa)>>)

(* The calls of reduction/mod.rs:220-227 *)
CallsRGB(image) ==
    LET gr == reduce_rgb_to_grayscale(image)
        pa == reduced_color_to_palette(image)
    IN  <<Called("reduce_rgb_to_grayscale", image, gr)>>
        \o (IF IsSome(gr) THEN <<>> ELSE <<Called("reduced_color_to_palette", image, pa)>>)

(* reduction/mod.rs:202-211 *)
CascRGBA ==
    /\ c_pc = "rgba"
    /\ c_st' = rct_rgba(c_st)
    /\ c_log' = c_log \o (IF c_st.reduced.ihdr.color_type = "RGBA"
                          THEN CallsRGBA(c_st.reduced) ELSE <<>>)
    /\ c_pc' = "grayscale_alpha"
    /\ UNCHANGED <<nonCascVars, c_png>>

(* reduction/mod.rs:213-218 *)
CascGrayscaleAlpha ==
    /\ c_pc = "grayscale_alpha"
    /\ c_st' = rct_grayscale_alpha(c_st)
    /\ c_log' = c_log \o (IF c_st.reduced.ihdr.color_type = "GrayscaleAlpha"
                          THEN <<Called("reduced_alpha_channel", c_st.reduced,
                                        reduced_alpha_channel(c_st.reduced))>>
                          ELSE <<>>)
    /\ c_pc' = "rgb"
    /\ UNCHANGED <<nonCascVars, c_png>>

(* reduction/mod.rs:220-227 *)
CascRGB ==
    /\ c_pc = "rgb"
    /\ c_st' = rct_rgb(c_st)
    /\ c_log' = c_log \o (IF c_st.reduced.ihdr.color_type = "RGB"
                          THEN CallsRGB(c_st.reduced) ELSE <<>>)
    /\ c_pc' = "palette"
    /\ UNCHANGED <<nonCascVars, c_png>>

(* reduction/mod.rs:229-235 *)
CascPalette ==
    /\ c_pc = "palette"
    /\ c_st' = rct_palette(c_st)
    /\ c_log' = c_log \o (IF c_st.should_reduce_bit_depth
                             /\ c_st.reduced.ihdr.color_type = "Indexed"
                          THEN <<Called("reduced_palette", c_st.reduced,
                                        reduced_palette(c_st.reduced))>>
                          ELSE <<>>)
    /\ c_pc' = "bit_depth"
    /\ UNCHANGED <<nonCascVars, c_png>>

(* reduction/mod.rs:237-243 *)
CascBitDepth ==
    /\ c_pc = "bit_depth"
    /\ c_st' = rct_bit_depth(c_st)
    /\ c_log' = c_log \o (IF c_st.should_reduce_bit_depth
                          THEN <<Called("reduce_bit_depth_8_or_less", c_st.reduced,
                                        reduce_bit_depth_8_or_less(c_st.reduced, 1))>>
                          ELSE <<>>)
    /\ c_pc' = "match"
    /\ UNCHANGED <<nonCascVars, c_png>>

(* reduction/mod.rs:245-248: Some(r) for Cow::Owned(r), else None; the
   result is read off c_st by CascReturned *)
CascMatch ==
    /\ c_pc = "match"
    /\ c_pc' = "returned"
    /\ UNCHANGED <<nonCascVars, c_png, c_st, c_log>>

(* The Option reduce_color_type has returned *)
CascReturned == IF c_st.owned THEN Some(c_st.reduced) ELSE None

NextCasc ==
    \/ CascRGBA
    \/ CascGrayscaleAlpha
    \/ CascRGB
    \/ CascPalette
    \/ CascBitDepth
    \/ CascMatch

(***************************************************************************)
(* Frame (src/src/apng.rs)                                                 *)
(***************************************************************************)
(* The length of the data of a fcTL chunk *)
FctlLen == 26

(* x.to_be_bytes() of an unsigned integer of w bytes *)
to_be_bytes(x, w) == [i \in 1..w |-> (x \div (256 ^ (w - i))) % 256]

(* headers::read_be_u32 and headers::read_be_u16 *)
read_be_u32(bytes) == bytes[1] * 16777216 + bytes[2] * 65536 + bytes[3] * 256 + bytes[4]

read_be_u16(bytes) == bytes[1] * 256 + bytes[2]

(* The values of PngResult<Frame> *)
FrameOk(f) == [ok |-> TRUE, val |-> f]

FrameErr(e) == [ok |-> FALSE, err |-> e]

(* Frame::from_fctl_data *)
from_fctl_data(byte_data) ==
    IF Len(byte_data) < FctlLen
    THEN FrameErr("TruncatedData")
    ELSE FrameOk([width |-> read_be_u32(SubSeq(byte_data, 5, 8)),
                  height |-> read_be_u32(SubSeq(byte_data, 9, 12)),
                  x_offset |-> read_be_u32(SubSeq(byte_data, 13, 16)),
                  y_offset |-> read_be_u32(SubSeq(byte_data, 17, 20)),
                  delay_num |-> read_be_u16(SubSeq(byte_data, 21, 22)),
                  delay_den |-> read_be_u16(SubSeq(byte_data, 23, 24)),
                  dispose_op |-> byte_data[25],
                  blend_op |-> byte_data[26],
                  data |-> <<>>])

(* Variant: the sequence number is written little-endian *)
fctl_data_LittleEndian(self, sequence_number) ==
    [i \in 1..4 |-> to_be_bytes(sequence_number, 4)[5 - i]]
        \o to_be_bytes(self.width, 4)
        \o to_be_bytes(self.height, 4)
        \o to_be_bytes(self.x_offset, 4)
        \o to_be_bytes(self.y_offset, 4)
        \o to_be_bytes(self.delay_num, 2)
        \o to_be_bytes(self.delay_den, 2)
        \o <<self.dispose_op, self.blend_op>>

(* Frame::fctl_data *)
fctl_data(self, sequence_number) ==
    to_be_bytes(sequence_number, 4)
        \o to_be_bytes(self.width, 4)
        \o to_be_bytes(self.height, 4)
        \o to_be_bytes(self.x_offset, 4)
        \o to_be_bytes(self.y_offset, 4)
        \o to_be_bytes(self.delay_num, 2)
        \o to_be_bytes(self.delay_den, 2)
        \o <<self.dispose_op, self.blend_op>>

(* Frame::fdat_data *)
fdat_data(self, sequence_number) ==
    to_be_bytes(sequence_number, 4) \o self.data

(* Frames whose fields differ from one another and fill one, two or all    *)
(* bytes of their width; sequence numbers likewise.  The values stay below *)
(* 2^31.                                                                   *)
ApngFrames ==
    [width : {1, 16909060}, height : {2, 2147483647},
     x_offset : {0, 256}, y_offset : {0, 65536},
     delay_num : {1, 513}, delay_den : {0, 65535},
     dispose_op : {0, 2}, blend_op : {0, 1},
     data : {<<>>, <<7, 255>>}]

SequenceNumbers == {0, 16909060, 2147483647}

(* The lengths of the chunk data handed to from_fctl_data: cut short,      *)
(* whole, and with a byte too many                                         *)
ApngInputLens == {0, 4, FctlLen - 1, FctlLen, FctlLen + 1}

ApngOff ==
    /\ a_pc = "off"
    /\ a_frame = None
    /\ a_n = 0
    /\ a_bytes = <<>>
    /\ a_in = <<>>
    /\ a_res = None

ApngInit ==
    /\ a_pc = "frame"
    /\ a_frame \in ApngFrames
    /\ a_n = 0
    /\ a_bytes = <<>>
    /\ a_in = <<>>
    /\ a_res = None

(* fctl_data of the frame, or of the frame that from_fctl_data returned *)
ApngFctlData ==
    \E n \in SequenceNumbers :
        /\ a_pc \in {"frame", "parsed"}
        /\ a_pc = "parsed" => a_res.ok
        /\ a_bytes' = fctl_data(IF a_pc = "frame" THEN a_frame ELSE a_res.val, n)
        /\ a_n' = n
        /\ a_pc' = IF a_pc = "frame" THEN "fctl" ELSE "rewritten"
        /\ UNCHANGED <<a_frame, a_in, a_res>>
        /\ UNCHANGED nonApngVars

(* fdat_data of the frame *)
ApngFdatData ==
    \E n \in SequenceNumbers :
        /\ a_pc = "frame"
        /\ a_bytes' = fdat_data(a_frame, n)
        /\ a_n' = n
        /\ a_pc' = "fdat"
        /\ UNCHANGED <<a_frame, a_in, a_res>>
        /\ UNCHANGED nonApngVars

(* from_fctl_data of the bytes built, cut to k bytes or with one more *)
ApngFromFctlData ==
    \E k \in ApngInputLens :
        /\ a_pc = "fctl"
        /\ a_in' = IF k <= FctlLen THEN SubSeq(a_bytes, 1, k) ELSE a_bytes \o <<0>>
        /\ a_res' = from_fctl_data(a_in')
        /\ a_pc' = "parsed"
        /\ UNCHANGED <<a_frame, a_n, a_bytes>>
        /\ UNCHANGED nonApngVars

NextApng ==
    \/ ApngFctlData
    \/ ApngFdatData
    \/ ApngFromFctlData

(***************************************************************************)
(* optimize (src/src/lib.rs)                                               *)
(***************************************************************************)
MaxFileIdat == 2
MaxChunkOverhead == 2
MaxCombinations == 2

Reductions == {"bit_depth", "color_type", "palette"}

NoFiles == [out_file |-> None, backup |-> FALSE, stdout |-> None]

OptOff ==
    /\ o_pc = "off"
    /\ opts = <<>>
    /\ in_file = <<>>
    /\ o_png = <<>>
    /\ something_changed = FALSE
    /\ trials_run = 0
    /\ best = None
    /\ output_len = None
    /\ files = NoFiles
    /\ o_ret = "none"
    /\ accepted = {}

(* The Options optimize reads, and an input file: `combinations` is
   filter.len() * compression.len() * memory.len() * strategies.len(). *)
OptInit ==
    /\ o_pc = "start"
    /\ opts \in [force : BOOLEAN, interlace : {None, Some(0), Some(1)},
                 idat_recoding : BOOLEAN, pretend : BOOLEAN, backup : BOOLEAN,
                 stdout : BOOLEAN, reductions : SUBSET Reductions,
                 combinations : 1..MaxCombinations]
    /\ in_file \in {f \in [decodable : BOOLEAN, idat_len : 1..MaxFileIdat,
                          size : 2..(MaxFileIdat + MaxChunkOverhead), interlaced : {0, 1}] :
                      /\ f.size > f.idat_len
                      /\ f.size <= f.idat_len + MaxChunkOverhead}
    /\ o_png = <<>>
    /\ something_changed = FALSE
    /\ trials_run = 0
    /\ best = None
    /\ output_len = None
    /\ files = NoFiles
    /\ o_ret = "none"
    /\ accepted = {}

(* Variant: the decoder accepts every file *)
DecodeResult_Lenient(file) == "Ok"

(* `match png::PngData::new(&in_file)` (lib.rs:53-56) *)
DecodeResult(file) == IF file.decodable THEN "Ok" ELSE "Err"

Decode ==
    /\ o_pc = "start"
    /\ IF DecodeResult(in_file) = "Err"
       THEN /\ o_ret' = "Err"
            /\ o_pc' = "returned"
            /\ UNCHANGED o_png
       ELSE /\ o_png' = [idat_len |-> in_file.idat_len, interlaced |-> in_file.interlaced]
            /\ o_pc' = "reduce"
            /\ UNCHANGED o_ret
    /\ UNCHANGED <<nonOptVars, opts, in_file, something_changed, trials_run, best,
                   output_len, files, accepted>>

(* Variant: only the option starts the trials *)
ShouldRecode_OptionOnly(idat_recoding, changed) == idat_recoding

(* `if opts.idat_recoding || something_changed` (lib.rs:158) *)
ShouldRecode(idat_recoding, changed) == idat_recoding \/ changed

(* lib.rs:116-158: the enabled reductions run, each returning true or false,
   then change_interlacing, which returns true iff the interlacing differs. *)
Reduce ==
    /\ o_pc = "reduce"
    /\ \E succ \in SUBSET opts.reductions :
          LET interlace_changed ==
                  IsSome(opts.interlace) /\ Unwrap(opts.interlace) # o_png.interlaced
              changed == succ # {} \/ interlace_changed
          IN  /\ something_changed' = changed
              /\ accepted' = succ \cup (IF interlace_changed THEN {"interlace"} ELSE {})
              /\ o_png' = [o_png EXCEPT !.interlaced =
                              IF interlace_changed THEN Unwrap(opts.interlace) ELSE @]
              /\ o_pc' = IF ShouldRecode(opts.idat_recoding, changed)
                         THEN "trials" ELSE "output"
    /\ UNCHANGED <<nonOptVars, opts, in_file, trials_run, best, output_len, files, o_ret>>

(* The condition under which a joined result replaces `best` (lib.rs:202-208) *)
TakesBest(len) ==
    \/ IsSome(best) /\ len < Unwrap(best)
    \/ /\ best = None
       /\ \/ len < o_png.idat_len
          \/ IsSome(opts.interlace) /\ opts.interlace # Some(o_png.interlaced)
          \/ opts.force

(* One `result.join()` of lib.rs:200-212: Err, or Ok with an IDAT length. *)
TrialJoin ==
    /\ o_pc = "trials"
    /\ trials_run < opts.combinations
    /\ \E r \in {None} \cup {Some(len) : len \in 1..(MaxFileIdat + 1)} :
          best' = IF IsSome(r) /\ TakesBest(Unwrap(r)) THEN r ELSE best
    /\ trials_run' = trials_run + 1
    /\ UNCHANGED <<nonOptVars, o_pc, opts, in_file, o_png, something_changed,
                   output_len, files, o_ret, accepted>>

(* `if let Some(better) = best { png.idat_data = better.4.clone(); }` *)
AdoptBest ==
    /\ o_pc = "trials"
    /\ trials_run = opts.combinations
    /\ o_png' = [o_png EXCEPT !.idat_len = IF IsSome(best) THEN Unwrap(best) ELSE @]
    /\ o_pc' = "output"
    /\ UNCHANGED <<nonOptVars, opts, in_file, something_changed, trials_run, best,
                   output_len, files, o_ret, accepted>>

(* The guard of lib.rs:255 *)
AlreadyOptimized(file_original_size, out_len) ==
    file_original_size <= out_len /\ ~opts.force /\ opts.interlace = None

(* lib.rs:230-258: the headers are stripped, png.output() assembles the
   file, and a file that did not shrink is reported as already optimized. *)
Output ==
    /\ o_pc = "output"
    /\ \E overhead \in 1..MaxChunkOverhead :
          LET out_len == overhead + o_png.idat_len
          IN  /\ output_len' = Some(out_len)
              /\ IF AlreadyOptimized(in_file.size, out_len)
                 THEN o_ret' = "Ok" /\ o_pc' = "returned"
                 ELSE o_ret' = o_ret /\ o_pc' = "write"
    /\ UNCHANGED <<nonOptVars, opts, in_file, o_png, something_changed, trials_run,
                   best, files, accepted>>

(* lib.rs:260-303: pretend mode, the backup copy, then stdout or out_file;
   each write succeeds or fails. *)
Write ==
    /\ o_pc = "write"
    /\ o_pc' = "returned"
    /\ IF opts.pretend
       THEN o_ret' = "Ok" /\ UNCHANGED files
       ELSE \E backup_ok \in BOOLEAN, write_ok \in BOOLEAN :
               IF opts.backup /\ ~backup_ok
               THEN o_ret' = "Err" /\ UNCHANGED files
               ELSE /\ o_ret' = IF write_ok THEN "Ok" ELSE "Err"
                    /\ files' = [backup |-> opts.backup,
                                 stdout |-> IF opts.stdout /\ write_ok
                                            THEN output_len ELSE None,
                                 out_file |-> IF ~opts.stdout /\ write_ok
                                              THEN output_len ELSE None]
    /\ UNCHANGED <<nonOptVars, opts, in_file, o_png, something_changed, trials_run,
                   best, output_len, accepted>>

NextOptimize ==
    \/ Decode
    \/ Reduce
    \/ TrialJoin
    \/ AdoptBest
    \/ Output
    \/ Write

(***************************************************************************)
(* optimize_with and MinGain                                               *)
(***************************************************************************)
MaxInputSize == 4

RatioPercents == {0, 25, 50, 100}

MinGains ==
    {None} \cup {Some(<<"Bytes", n>>) : n \in 0..MaxInputSize}
           \cup {Some(<<"Ratio", r>>) : r \in RatioPercents}

WithOff ==
    /\ w_pc = "off"
    /\ w_in_size = 0
    /\ w_min_gain = None
    /\ w_out = "in_place"
    /\ w_opt_size = 0
    /\ w_files = [input |-> "input", output |-> None]
    /\ w_ret = None

WithInit ==
    /\ w_pc = "start"
    /\ w_in_size \in 1..MaxInputSize
    /\ w_min_gain \in MinGains
    /\ w_out \in {"in_place", "path"}
    /\ w_opt_size = 0
    /\ w_files = [input |-> "input", output |-> None]
    /\ w_ret = None

(* Variant: no saving is below the threshold *)
BelowThreshold_Never(min_gain, input_size, optimized_size) == FALSE

(* The savings input_size - optimized_size fall below the threshold; a
   Ratio is held in percent. *)
BelowThreshold(min_gain, input_size, optimized_size) ==
    /\ IsSome(min_gain)
    /\ IF Unwrap(min_gain)[1] = "Bytes"
       THEN input_size - optimized_size < Unwrap(min_gain)[2]
       ELSE (input_size - optimized_size) * 100 < Unwrap(min_gain)[2] * input_size

(* The optimization of the input: without force the result is no larger
   than the input. *)
WithOptimize ==
    /\ w_pc = "start"
    /\ w_opt_size' \in 1..w_in_size
    /\ w_pc' = "optimized"
    /\ UNCHANGED <<nonWithVars, w_in_size, w_min_gain, w_out, w_files, w_ret>>

(* Below the threshold no optimized byte is written and (in, in) is
   returned, a distinct output path receiving the input bytes; otherwise the
   optimized bytes go to the output target. *)
WithWrite ==
    /\ w_pc = "optimized"
    /\ w_pc' = "returned"
    /\ IF BelowThreshold(w_min_gain, w_in_size, w_opt_size)
       THEN /\ w_ret' = Some(<<w_in_size, w_in_size>>)
            /\ w_files' = IF w_out = "path"
                          THEN [w_files EXCEPT !.output = Some("input")]
                          ELSE w_files
       ELSE /\ w_ret' = Some(<<w_in_size, w_opt_size>>)
            /\ w_files' = IF w_out = "path"
                          THEN [w_files EXCEPT !.output = Some("optimized")]
                          ELSE [w_files EXCEPT !.input = "optimized"]
    /\ UNCHANGED <<nonWithVars, w_in_size, w_min_gain, w_out, w_opt_size>>

NextWith ==
    \/ WithOptimize
    \/ WithWrite

(***************************************************************************)
(* Evaluator                                                               *)
(***************************************************************************)

(* Evaluator::filters, an IndexSet<FilterStrategy> in insertion order.  A   *)
(* filter is its rank in the derived Ord of FilterStrategy: 0 = NONE,      *)
(* 1 = SUB, 2 = UP, ...                                                    *)
filters == [i \in 1..NumFilters |-> i - 1]
FilterSet == {filters[i] : i \in 1..NumFilters}

ImageInputs == [data_len : 1..MaxDataLen,
                overhead : 1..MaxOverhead,
                idat_len : [FilterSet -> 1..MaxIdatLen]]

(* AtomicMin::get *)
AtomicMinGet(a) == a

(* AtomicMin::set_min *)
AtomicMinSetMin(a, v) == IF IsSome(a) THEN Some(Min2(Unwrap(a), v)) ELSE Some(v)

(* The slack added to the output buffer (deflater.rs:11) *)
Slack == 9

(* Compressor::zlib_compress_bound of libdeflater: the largest zlib stream
   the compressor produces for data_len input bytes; for an input of less
   than one block that is the stored block (5 bytes of header) in the zlib
   wrapper (6 bytes). *)
zlib_compress_bound(data_len) == data_len + 11

(* The two failures and the success of deflate (deflate/deflater.rs).
   data_len is data.len(), len the length of the stream the compressor
   produces for data (len <= zlib_compress_bound(data_len)), max_size the
   value of max_size.get().  The result is Ok(dest) with dest.len() = len, or
   Err(DeflatedDataTooLong(too_long)). *)
deflate(data_len, len, max_size) ==
    LET capacity == (IF IsSome(max_size) THEN Unwrap(max_size)
                     ELSE zlib_compress_bound(data_len)) + Slack
    IN  IF len > capacity
        THEN [ok |-> FALSE, too_long |-> capacity]
        ELSE IF IsSome(max_size) /\ len > Unwrap(max_size)
        THEN [ok |-> FALSE, too_long |-> Unwrap(max_size)]
        ELSE [ok |-> TRUE, len |-> len]

(* PngImage::estimated_output_size *)
estimated_output_size(image, idat_len) == idat_len + image.overhead

(* The Candidate built at evaluate.rs:171 by trial (n, f); n is 1-based in  *)
(* `calls`, the sequence number nth is n - 1.                              *)
NewCandidate(n, f) ==
    [image |-> n,
     estimated_output_size |-> estimated_output_size(calls[n], calls[n].idat_len[f]),
     filter |-> f,
     nth |-> n - 1]

(* Variant: among equal sizes the higher filter is preferred *)
cmp_key_FilterDescending(c) ==
    <<c.estimated_output_size, calls[c.image].data_len, 0 - c.filter, USIZE_MAX - c.nth>>

(* Candidate::cmp_key *)
cmp_key(c) == <<c.estimated_output_size, calls[c.image].data_len, c.filter, USIZE_MAX - c.nth>>

(* The derived lexicographic Ord on the 4-tuples returned by cmp_key. *)
KeyLess(a, b) ==
    \/ a[1] < b[1]
    \/ a[1] = b[1] /\ a[2] < b[2]
    \/ a[1] = b[1] /\ a[2] = b[2] /\ a[3] < b[3]
    \/ a[1] = b[1] /\ a[2] = b[2] /\ a[3] = b[3] /\ a[4] < b[4]

EvalInit ==
    /\ calls = <<>>
    /\ nth = 0
    /\ executed = 0
    /\ best_candidate_size = None
    /\ eval_channel = <<>>
    /\ senders = 1
    /\ imgTask = [n \in 1..MaxImages |-> "none"]
    /\ trial = [n \in 1..MaxImages |-> [f \in FilterSet |-> "idle"]]
    /\ mainPc = "open"
    /\ nthSeen = 0
    /\ acc = None
    /\ result = None
    /\ deadline_passed = FALSE
    /\ set_sizes = {}
    /\ sent = {}

(* Evaluator::set_best_size, called by the owner before it submits images. *)
SetBestSize ==
    /\ mainPc = "open"
    /\ nth = 0
    /\ Cardinality(set_sizes) < MaxSetCalls
    /\ \E size \in 1..(MaxIdatLen + MaxOverhead) :
          /\ size \notin set_sizes
          /\ best_candidate_size' = AtomicMinSetMin(best_candidate_size, size)
          /\ set_sizes' = set_sizes \cup {size}
    /\ UNCHANGED <<nonEvalVars, calls, nth, executed, eval_channel, senders, imgTask, trial,
                   mainPc, nthSeen, acc, result, deadline_passed, sent>>

(* Evaluator::try_image_with_description up to rayon::spawn, for an image
   drawn from inputs. *)
TryImageFrom(inputs) ==
    /\ mainPc = "open"
    /\ nth < MaxImages
    /\ \E image \in inputs : calls' = Append(calls, image)
    /\ nth' = nth + 1
    /\ senders' = senders + 1
    /\ imgTask' = [imgTask EXCEPT ![nth + 1] = "spawned"]
    /\ UNCHANGED <<nonEvalVars, executed, best_candidate_size, eval_channel, trial, mainPc,
                   nthSeen, acc, result, deadline_passed, set_sizes, sent>>

(* Evaluator::try_image *)
TryImage == TryImageFrom(ImageInputs)

(* The spawned closure starts: executed.fetch_add(1), then par_iter.       *)
TaskStart(n) ==
    /\ imgTask[n] = "spawned"
    /\ executed' = executed + 1
    /\ imgTask' = [imgTask EXCEPT ![n] = "running"]
    /\ trial' = [trial EXCEPT ![n] = [f \in FilterSet |-> "ready"]]
    /\ UNCHANGED <<nonEvalVars, calls, nth, best_candidate_size, eval_channel, senders, mainPc,
                   nthSeen, acc, result, deadline_passed, set_sizes, sent>>

(* Variant: the closure does not look at the deadline *)
TrialDeadline_Ignored(n, f) ==
    /\ trial[n][f] = "ready"
    /\ trial' = [trial EXCEPT ![n][f] = "filter"]
    /\ UNCHANGED <<nonEvalVars, calls, nth, executed, best_candidate_size, eval_channel, senders,
                   imgTask, mainPc, nthSeen, acc, result, deadline_passed,
                   set_sizes, sent>>

(* filters_iter.for_each: `if deadline.passed() { return; }` *)
TrialDeadline(n, f) ==
    /\ trial[n][f] = "ready"
    /\ trial' = [trial EXCEPT ![n][f] = IF deadline_passed THEN "expired" ELSE "filter"]
    /\ UNCHANGED <<nonEvalVars, calls, nth, executed, best_candidate_size, eval_channel, senders,
                   imgTask, mainPc, nthSeen, acc, result, deadline_passed,
                   set_sizes, sent>>

(* Variant: a DeflatedDataTooLong error ends every unfinished trial of the
   image instead of the one trial *)
TrialDeflate_AbortsImage(n, f) ==
    /\ trial[n][f] = "filter"
    /\ LET idat_data == deflate(calls[n].data_len, calls[n].idat_len[f],
                                AtomicMinGet(best_candidate_size))
       IN  trial' = IF idat_data.ok
                    THEN [trial EXCEPT ![n][f] = "deflated"]
                    ELSE [trial EXCEPT ![n] =
                             [g \in FilterSet |->
                                 IF trial[n][g] \in {"ready", "filter"}
                                 THEN "too_long" ELSE trial[n][g]]]
    /\ UNCHANGED <<nonEvalVars, calls, nth, executed, best_candidate_size, eval_channel, senders,
                   imgTask, mainPc, nthSeen, acc, result, deadline_passed,
                   set_sizes, sent>>

(* image.filter_image(..) and deflater.deflate(&filtered, best_candidate_size.get());
   an Err result drops the trial. *)
TrialDeflate(n, f) ==
    /\ trial[n][f] = "filter"
    /\ LET idat_data == deflate(calls[n].data_len, calls[n].idat_len[f],
                                AtomicMinGet(best_candidate_size))
       IN  trial' = [trial EXCEPT ![n][f] = IF idat_data.ok THEN "deflated" ELSE "too_long"]
    /\ UNCHANGED <<nonEvalVars, calls, nth, executed, best_candidate_size, eval_channel, senders,
                   imgTask, mainPc, nthSeen, acc, result, deadline_passed,
                   set_sizes, sent>>

(* Variant: a candidate equal to the best size is dropped too *)
ExceedsBest_OrEqual(size, max) == size >= max

(* `estimated_output_size > max` of evaluate.rs:165 *)
ExceedsBest(size, max) == size > max

(* Variant: the best-size check never drops a candidate *)
SkipTrial_Never(size, max) == FALSE

(* `if let Some(max) = best_candidate_size.get() { if estimated_output_size > max { return; } }` *)
SkipTrial(size, max) == IsSome(max) /\ ExceedsBest(size, Unwrap(max))

TrialCheck(n, f) ==
    /\ trial[n][f] = "deflated"
    /\ trial' = [trial EXCEPT ![n][f] =
                    IF SkipTrial(NewCandidate(n, f).estimated_output_size,
                                 AtomicMinGet(best_candidate_size))
                    THEN "done" ELSE "built"]
    /\ UNCHANGED <<nonEvalVars, calls, nth, executed, best_candidate_size, eval_channel, senders,
                   imgTask, mainPc, nthSeen, acc, result, deadline_passed,
                   set_sizes, sent>>

(* Variant: the size is stored, not combined with the size already there *)
TrialSetMin_Store(n, f) ==
    /\ trial[n][f] = "built"
    /\ best_candidate_size' = Some(NewCandidate(n, f).estimated_output_size)
    /\ trial' = [trial EXCEPT ![n][f] = "send"]
    /\ UNCHANGED <<nonEvalVars, calls, nth, executed, eval_channel, senders, imgTask, mainPc,
                   nthSeen, acc, result, deadline_passed, set_sizes, sent>>

(* best_candidate_size.set_min(estimated_output_size) *)
TrialSetMin(n, f) ==
    /\ trial[n][f] = "built"
    /\ best_candidate_size' =
          AtomicMinSetMin(best_candidate_size, NewCandidate(n, f).estimated_output_size)
    /\ trial' = [trial EXCEPT ![n][f] = "send"]
    /\ UNCHANGED <<nonEvalVars, calls, nth, executed, eval_channel, senders, imgTask, mainPc,
                   nthSeen, acc, result, deadline_passed, set_sizes, sent>>

(* eval_send.send(new) *)
TrialSend(n, f) ==
    /\ trial[n][f] = "send"
    /\ eval_channel' = Append(eval_channel, NewCandidate(n, f))
    /\ sent' = sent \cup {NewCandidate(n, f)}
    /\ trial' = [trial EXCEPT ![n][f] = "done"]
    /\ UNCHANGED <<nonEvalVars, calls, nth, executed, best_candidate_size, senders, imgTask,
                   mainPc, nthSeen, acc, result, deadline_passed, set_sizes>>

(* The positions at which the closure of for_each has returned: the
   candidate was sent or skipped ("done"), the deadline had passed
   ("expired"), deflate returned DeflatedDataTooLong ("too_long") or another
   error ("failed"). *)
TrialOver == {"done", "expired", "too_long", "failed"}

(* The spawned closure returns once for_each has run every filter; its
   clone of the Sender is dropped. *)
TaskEnd(n) ==
    /\ imgTask[n] = "running"
    /\ \A f \in FilterSet : trial[n][f] \in TrialOver
    /\ imgTask' = [imgTask EXCEPT ![n] = "finished"]
    /\ senders' = senders - 1
    /\ UNCHANGED <<nonEvalVars, calls, nth, executed, best_candidate_size, eval_channel, trial,
                   mainPc, nthSeen, acc, result, deadline_passed, set_sizes, sent>>

(* get_best_candidate: drop(eval_send); let nth = self.nth.load(SeqCst) *)
GetBestBegin ==
    /\ mainPc = "open"
    /\ senders' = senders - 1
    /\ nthSeen' = nth
    /\ mainPc' = "wait"
    /\ UNCHANGED <<nonEvalVars, calls, nth, executed, best_candidate_size, eval_channel, imgTask,
                   trial, acc, result, deadline_passed, set_sizes, sent>>

(* `while self.executed.load(Relaxed) < nth { rayon::yield_local(); }` exits *)
GetBestWaited ==
    /\ mainPc = "wait"
    /\ ~(executed < nthSeen)
    /\ mainPc' = "recv"
    /\ UNCHANGED <<nonEvalVars, calls, nth, executed, best_candidate_size, eval_channel, senders,
                   imgTask, trial, nthSeen, acc, result, deadline_passed, set_sizes,
                   sent>>

(* Iterator::min_by_key: the first of several equal minima is kept. *)
min_by_key(cur, new) ==
    IF IsSome(cur) /\ ~KeyLess(cmp_key(new), cmp_key(Unwrap(cur))) THEN cur ELSE Some(new)

(* eval_recv.into_iter() yields the next message *)
GetBestRecv ==
    /\ mainPc = "recv"
    /\ eval_channel # <<>>
    /\ acc' = min_by_key(acc, Head(eval_channel))
    /\ eval_channel' = Tail(eval_channel)
    /\ UNCHANGED <<nonEvalVars, calls, nth, executed, best_candidate_size, senders, imgTask,
                   trial, mainPc, nthSeen, result, deadline_passed, set_sizes, sent>>

(* Variant: the receiver stops at the first moment the channel is empty
   (try_iter), whether or not a Sender is left *)
GetBestReturn_TryIter ==
    /\ mainPc = "recv"
    /\ eval_channel = <<>>
    /\ result' = acc
    /\ mainPc' = "returned"
    /\ UNCHANGED <<nonEvalVars, calls, nth, executed, best_candidate_size, eval_channel, senders,
                   imgTask, trial, nthSeen, acc, deadline_passed, set_sizes, sent>>

(* eval_recv.into_iter() ends when the channel is empty and disconnected *)
GetBestReturn ==
    /\ mainPc = "recv"
    /\ eval_channel = <<>>
    /\ senders = 0
    /\ result' = acc
    /\ mainPc' = "returned"
    /\ UNCHANGED <<nonEvalVars, calls, nth, executed, best_candidate_size, eval_channel, senders,
                   imgTask, trial, nthSeen, acc, deadline_passed, set_sizes, sent>>

(***************************************************************************)
(* The non-parallel build of the evaluator (evaluate.rs:109-112, 186-192): *)
(* rayon::spawn and par_iter run in place, in call and filter order.       *)
(***************************************************************************)
SerialTrial(st, n, f) ==
    LET idat_data == deflate(calls[n].data_len, calls[n].idat_len[f], AtomicMinGet(st.size))
        new == NewCandidate(n, f)
    IN  IF ~idat_data.ok THEN st
        ELSE IF SkipTrial(new.estimated_output_size, AtomicMinGet(st.size)) THEN st
        ELSE [size |-> AtomicMinSetMin(st.size, new.estimated_output_size),
              best |-> IF IsSome(st.best) /\ KeyLess(cmp_key(Unwrap(st.best)), cmp_key(new))
                       THEN st.best ELSE Some(new)]

RECURSIVE SerialEval(_, _)
SerialEval(i, st) ==
    IF i > Len(calls) * NumFilters THEN st
    ELSE SerialEval(i + 1, SerialTrial(st, ((i - 1) \div NumFilters) + 1,
                                           filters[((i - 1) % NumFilters) + 1]))

(* The best size after the set_best_size calls made before any submission. *)
SerialInitSize ==
    IF set_sizes = {} THEN None
    ELSE Some(CHOOSE m \in set_sizes : \A x \in set_sizes : m <= x)

SerialBest == SerialEval(1, [size |-> SerialInitSize, best |-> None]).best

NextEval ==
    \/ SetBestSize
    \/ TryImage
    \/ \E n \in 1..MaxImages : TaskStart(n)
    \/ \E n \in 1..MaxImages : \E f \in FilterSet : TrialDeadline(n, f)
    \/ \E n \in 1..MaxImages : \E f \in FilterSet : TrialDeflate(n, f)
    \/ \E n \in 1..MaxImages : \E f \in FilterSet : TrialCheck(n, f)
    \/ \E n \in 1..MaxImages : \E f \in FilterSet : TrialSetMin(n, f)
    \/ \E n \in 1..MaxImages : \E f \in FilterSet : TrialSend(n, f)
    \/ \E n \in 1..MaxImages : TaskEnd(n)
    \/ GetBestBegin
    \/ GetBestWaited
    \/ GetBestRecv
    \/ GetBestReturn

(***************************************************************************)
(* deflate of deflate/deflater.rs called on its own                        *)
(***************************************************************************)

(* The longest data and the largest max_size of the calls below *)
MaxDeflData == 2
MaxDeflMaxSize == 3

DeflOff ==
    /\ d_pc = "off"
    /\ d_data_len = 0
    /\ d_len = 0
    /\ d_max_size = None
    /\ d_ret = None

(* A call deflate(data, level, max_size): the compressor's stream for data
   is at most zlib_compress_bound(data.len()) long. *)
DeflInit ==
    /\ d_pc = "call"
    /\ d_data_len \in 0..MaxDeflData
    /\ d_len \in 1..zlib_compress_bound(MaxDeflData)
    /\ d_len <= zlib_compress_bound(d_data_len)
    /\ d_max_size \in {None} \cup {Some(max) : max \in 0..MaxDeflMaxSize}
    /\ d_ret = None

(* deflate runs *)
Deflate ==
    /\ d_pc = "call"
    /\ d_ret' = Some(deflate(d_data_len, d_len, d_max_size))
    /\ d_pc' = "done"
    /\ UNCHANGED <<nonDeflVars, d_data_len, d_len, d_max_size>>

NextDeflate == Deflate

(***************************************************************************)
(* Options::default and Options::from_preset (options.rs).  Of Options the *)
(* fields the presets touch are kept: filters (an IndexSet, here the       *)
(* sequence of its elements), deflater (Libdeflater { compression }) and   *)
(* fast_evaluation.                                                        *)
(***************************************************************************)

(* u8::MAX, the largest level from_preset can be given *)
U8_MAX == 255

(* FilterStrategy: the basic filters and heuristics by name, and Brute *)
Basic(name) == <<name>>
Brute(num_lines, level) == <<"Brute", num_lines, level>>

(* impl Default for Options *)
OptionsDefault ==
    [filters |-> <<Basic("None"), Basic("Sub"), Basic("Entropy"), Basic("Bigrams")>>,
     deflater |-> [compression |-> 11],
     fast_evaluation |-> TRUE]

apply_preset_0(self) ==
    [self EXCEPT !.filters = <<>>, !.deflater = [compression |-> 5]]

apply_preset_1(self) ==
    [self EXCEPT !.filters = <<>>, !.deflater = [compression |-> 10]]

apply_preset_2(self) == self

(* Variant: preset 3 raises the compression level as presets 4 to 6 do *)
apply_preset_3_Level12(self) ==
    [self EXCEPT !.fast_evaluation = FALSE,
                 !.filters = <<Basic("None"), Basic("Bigrams"), Basic("BigEnt"), Brute(3, 1)>>,
                 !.deflater = [compression |-> 12]]

apply_preset_3(self) ==
    [self EXCEPT !.fast_evaluation = FALSE,
                 !.filters = <<Basic("None"), Basic("Bigrams"), Basic("BigEnt"), Brute(3, 1)>>]

apply_preset_4(self) ==
    [self EXCEPT !.fast_evaluation = FALSE,
                 !.filters = <<Basic("None"), Basic("Bigrams"), Basic("BigEnt"), Brute(4, 1)>>,
                 !.deflater = [compression |-> 12]]

apply_preset_5(self) ==
    [self EXCEPT !.fast_evaluation = FALSE,
                 !.filters = <<Basic("None"), Basic("Sub"), Basic("Up"), Basic("MinSum"),
                               Basic("Entropy"), Basic("Bigrams"), Basic("BigEnt"),
                               Brute(4, 4)>>,
                 !.deflater = [compression |-> 12]]

apply_preset_6(self) ==
    [self EXCEPT !.fast_evaluation = FALSE,
                 !.filters = <<Basic("None"), Basic("Sub"), Basic("Up"), Basic("Average"),
                               Basic("Paeth"), Basic("MinSum"), Basic("Entropy"),
                               Basic("Bigrams"), Basic("BigEnt"), Brute(8, 5)>>,
                 !.deflater = [compression |-> 12]]

(* Options::from_preset *)
from_preset(level) ==
    LET opts_ == OptionsDefault
    IN  CASE level = 0 -> apply_preset_0(opts_)
          [] level = 1 -> apply_preset_1(opts_)
          [] level = 2 -> apply_preset_2(opts_)
          [] level = 3 -> apply_preset_3(opts_)
          [] level = 4 -> apply_preset_4(opts_)
          [] level = 5 -> apply_preset_5(opts_)
          [] level = 6 -> apply_preset_6(opts_)
          [] OTHER -> apply_preset_6(opts_)

PresetOff ==
    /\ pr_level = None
    /\ pr_opts = None

(* A caller is about to ask for the preset of some level: u8 *)
PresetInit ==
    /\ pr_level \in {Some(level) : level \in 0..U8_MAX}
    /\ pr_opts = None

FromPreset ==
    /\ IsSome(pr_level)
    /\ pr_opts = None
    /\ pr_opts' = Some(from_preset(Unwrap(pr_level)))
    /\ UNCHANGED <<nonPresetVars, pr_level>>

NextPreset == FromPreset

(***************************************************************************)
(* main (main.rs): every file is processed, the results are counted and    *)
(* the exit status is chosen.                                              *)
(***************************************************************************)

(* The largest number of files on the command line *)
MaxFiles == 3

(* What a file is: optimize_with returns Ok for "Ok",
   Err(C2PAMetadataPreventsChanges) for "C2PA", Err(InflatedDataTooLong) for
   "Bomb" and Err(NotPNG) for "NotPNG"; "Oversize" is a file longer than
   opts.max_decompressed_size. *)
FileKinds == {"Ok", "C2PA", "Bomb", "Oversize", "NotPNG"}

(* process_file: the OptimizationResult of a file, by its error if any *)
process_file(input) ==
    IF input = "Oversize" THEN "InflatedDataTooLong"
    ELSE CASE input = "Ok" -> "Ok"
           [] input = "C2PA" -> "C2PAMetadataPreventsChanges"
           [] input = "Bomb" -> "InflatedDataTooLong"
           [] input = "NotPNG" -> "NotPNG"

(* The loop of main.rs:114-127 from result i on *)
RECURSIVE CollectStats(_, _, _)
CollectStats(results, i, st) ==
    IF i > Len(results) THEN st
    ELSE CollectStats(results, i + 1,
            CASE Unwrap(results[i]) = "Ok" ->
                    [st EXCEPT !.num_succeeded = st.num_succeeded + 1]
              [] Unwrap(results[i]) \in {"C2PAMetadataPreventsChanges", "InflatedDataTooLong"} ->
                    st
              [] OTHER -> [st EXCEPT !.num_failed = st.num_failed + 1])

(* Variant: a failed file decides the exit status before a succeeded one *)
exit_code_FailureFirst(succeeded, failed) ==
    IF failed > 0 THEN "FAILURE"
    ELSE IF succeeded > 0 THEN "SUCCESS"
    ELSE "3"

(* main.rs:166-172, ExitCode::from(3) written "3" *)
exit_code(succeeded, failed) ==
    IF succeeded > 0 THEN "SUCCESS"
    ELSE IF failed > 0 THEN "FAILURE"
    ELSE "3"

MainOff ==
    /\ m_pc = "off"
    /\ m_files = <<>>
    /\ m_results = <<>>
    /\ num_succeeded = 0
    /\ num_failed = 0
    /\ m_exit = "none"

MainInit ==
    /\ m_pc = "process"
    /\ \E n \in 0..MaxFiles : m_files \in [1..n -> FileKinds]
    /\ m_results = [i \in 1..Len(m_files) |-> None]
    /\ num_succeeded = 0
    /\ num_failed = 0
    /\ m_exit = "none"

(* `process` on file i; files.iter() takes the files in order,
   files.par_iter() in any order, .collect() keeps their positions. *)
ProcessFile(i) ==
    /\ m_pc = "process"
    /\ m_results[i] = None
    /\ m_results' = [m_results EXCEPT ![i] = Some(process_file(m_files[i]))]
    /\ UNCHANGED <<nonMainVars, m_pc, m_files, num_succeeded, num_failed, m_exit>>

(* .collect() has every result: the statistics are counted *)
MainStats ==
    /\ m_pc = "process"
    /\ \A i \in 1..Len(m_files) : IsSome(m_results[i])
    /\ LET st == CollectStats(m_results, 1, [num_succeeded |-> 0, num_failed |-> 0])
       IN  /\ num_succeeded' = st.num_succeeded
           /\ num_failed' = st.num_failed
    /\ m_pc' = "stats"
    /\ UNCHANGED <<nonMainVars, m_files, m_results, m_exit>>

(* main returns its ExitCode *)
MainExit ==
    /\ m_pc = "stats"
    /\ m_exit' = exit_code(num_succeeded, num_failed)
    /\ m_pc' = "exited"
    /\ UNCHANGED <<nonMainVars, m_files, m_results, num_succeeded, num_failed>>

NextMain ==
    \/ \E i \in 1..MaxFiles : i <= Len(m_files) /\ ProcessFile(i)
    \/ MainStats
    \/ MainExit

(***************************************************************************)
(* The Evaluator and the worker pool (evaluate.rs:96-107, 126-143).  Each  *)
(* try_image spawns one task; a pending task is started by an idle worker, *)
(* or by the caller inside rayon::yield_local() when the caller is itself  *)
(* a worker of the pool (it then runs the task to its end before           *)
(* yield_local returns).  The trials of a task are one step here.          *)
(***************************************************************************)

(* The largest pool and the largest number of try_image calls *)
PoolSize == 2
MaxPoolTasks == 3

PoolOff ==
    /\ pl_pc = "off"
    /\ pl_in_pool = FALSE
    /\ pl_workers = 1
    /\ pl_nth = 0
    /\ pl_executed = 0
    /\ pl_senders = 0
    /\ pl_nth_seen = 0
    /\ pl_task = [n \in 1..MaxPoolTasks |-> "none"]
    /\ pl_thread = [n \in 1..MaxPoolTasks |-> 0]

(* Evaluator::new, called from outside the pool or from its worker 1 *)
PoolInit ==
    /\ pl_pc = "open"
    /\ pl_in_pool \in BOOLEAN
    /\ pl_workers \in 1..PoolSize
    /\ pl_nth = 0
    /\ pl_executed = 0
    /\ pl_senders = 1
    /\ pl_nth_seen = 0
    /\ pl_task = [n \in 1..MaxPoolTasks |-> "none"]
    /\ pl_thread = [n \in 1..MaxPoolTasks |-> 0]

(* The workers that run nothing; worker 1 is taken while the caller runs on it *)
IdleWorkers ==
    {w \in 1..pl_workers :
        /\ ~(pl_in_pool /\ w = 1)
        /\ \A n \in 1..MaxPoolTasks : ~(pl_task[n] = "running" /\ pl_thread[n] = w)}

(* try_image_with_description: nth.fetch_add(1), eval_send.clone(), rayon::spawn *)
PoolTryImage ==
    /\ pl_pc = "open"
    /\ pl_nth < MaxPoolTasks
    /\ pl_nth' = pl_nth + 1
    /\ pl_senders' = pl_senders + 1
    /\ pl_task' = [pl_task EXCEPT ![pl_nth + 1] = "pending"]
    /\ UNCHANGED <<nonPoolVars, pl_pc, pl_in_pool, pl_workers, pl_executed, pl_nth_seen,
                   pl_thread>>

(* An idle worker takes a pending task: executed.fetch_add(1) *)
PoolWorkerStart(w, n) ==
    /\ w \in IdleWorkers
    /\ pl_task[n] = "pending"
    /\ pl_task' = [pl_task EXCEPT ![n] = "running"]
    /\ pl_thread' = [pl_thread EXCEPT ![n] = w]
    /\ pl_executed' = pl_executed + 1
    /\ UNCHANGED <<nonPoolVars, pl_pc, pl_in_pool, pl_workers, pl_nth, pl_senders,
                   pl_nth_seen>>

(* The spawned closure runs its trials to the end and drops its Sender; a
   task run inside yield_local gives control back to the wait loop. *)
PoolTaskRun(n) ==
    /\ pl_task[n] = "running"
    /\ pl_task' = [pl_task EXCEPT ![n] = "done"]
    /\ pl_senders' = pl_senders - 1
    /\ pl_pc' = IF pl_pc = "yield" /\ pl_in_pool /\ pl_thread[n] = 1 THEN "wait" ELSE pl_pc
    /\ UNCHANGED <<nonPoolVars, pl_in_pool, pl_workers, pl_nth, pl_executed, pl_nth_seen,
                   pl_thread>>

(* get_best_candidate: drop(eval_send); let nth = self.nth.load(SeqCst) *)
PoolGetBestBegin ==
    /\ pl_pc = "open"
    /\ pl_senders' = pl_senders - 1
    /\ pl_nth_seen' = pl_nth
    /\ pl_pc' = "wait"
    /\ UNCHANGED <<nonPoolVars, pl_in_pool, pl_workers, pl_nth, pl_executed, pl_task,
                   pl_thread>>

(* Variant: the loop spins (or blocks) without running pending work *)
PoolYieldLocal_Spin ==
    /\ pl_pc = "wait"
    /\ pl_executed < pl_nth_seen
    /\ UNCHANGED vars

(* `while self.executed.load(Relaxed) < nth { rayon::yield_local(); }`: on a
   worker of the pool yield_local runs one pending task on this thread,
   elsewhere (or with nothing pending) it returns at once. *)
PoolYieldLocal ==
    /\ pl_pc = "wait"
    /\ pl_executed < pl_nth_seen
    /\ IF pl_in_pool /\ \E n \in 1..MaxPoolTasks : pl_task[n] = "pending"
       THEN \E n \in 1..MaxPoolTasks :
               /\ pl_task[n] = "pending"
               /\ pl_task' = [pl_task EXCEPT ![n] = "running"]
               /\ pl_thread' = [pl_thread EXCEPT ![n] = 1]
               /\ pl_executed' = pl_executed + 1
               /\ pl_pc' = "yield"
               /\ UNCHANGED <<nonPoolVars, pl_in_pool, pl_workers, pl_nth, pl_senders,
                              pl_nth_seen>>
       ELSE UNCHANGED vars

(* The wait loop ends: every task has started *)
PoolWaited ==
    /\ pl_pc = "wait"
    /\ ~(pl_executed < pl_nth_seen)
    /\ pl_pc' = "recv"
    /\ UNCHANGED <<nonPoolVars, pl_in_pool, pl_workers, pl_nth, pl_executed, pl_senders,
                   pl_nth_seen, pl_task, pl_thread>>

(* eval_recv.into_iter().min_by_key(..) ends when every Sender is dropped *)
PoolReturn ==
    /\ pl_pc = "recv"
    /\ pl_senders = 0
    /\ pl_pc' = "returned"
    /\ UNCHANGED <<nonPoolVars, pl_in_pool, pl_workers, pl_nth, pl_executed, pl_senders,
                   pl_nth_seen, pl_task, pl_thread>>

NextPool ==
    \/ PoolTryImage
    \/ \E w \in 1..PoolSize : \E n \in 1..MaxPoolTasks : PoolWorkerStart(w, n)
    \/ \E n \in 1..MaxPoolTasks : PoolTaskRun(n)
    \/ PoolGetBestBegin
    \/ PoolYieldLocal
    \/ PoolWaited
    \/ PoolReturn

(* The pool is fair and every task terminates: a worker that can take a
   pending task does, a running task ends, and the caller goes on. *)
PoolFairness ==
    /\ WF_vars(\E w \in 1..PoolSize : \E n \in 1..MaxPoolTasks : PoolWorkerStart(w, n))
    /\ \A n \in 1..MaxPoolTasks : WF_vars(PoolTaskRun(n))
    /\ WF_vars(PoolYieldLocal)
    /\ WF_vars(PoolWaited)
    /\ WF_vars(PoolReturn)

(***************************************************************************)
(* paeth_predictor called on its own                                       *)
(***************************************************************************)

(* The bytes given to paeth_predictor: the PaethEdge + 1 lowest, the
   PaethEdge + 1 highest and the two in the middle *)
PaethEdge == 5

PaethBytes == (0..PaethEdge) \cup ((255 - PaethEdge)..255) \cup {127, 128}

PaethOff ==
    /\ pth_a = 0
    /\ pth_b = 0
    /\ pth_c = 0
    /\ pth_ret = <<0>>

PaethInit ==
    /\ pth_a \in PaethBytes
    /\ pth_b \in PaethBytes
    /\ pth_c \in PaethBytes
    /\ pth_ret = None

PaethPredict ==
    /\ pth_ret = None
    /\ pth_ret' = Some(paeth_predictor(pth_a, pth_b, pth_c))
    /\ UNCHANGED <<nonPaethVars, pth_a, pth_b, pth_c>>

NextPaeth == PaethPredict

(***************************************************************************)
(* The evaluator with the faults of a trial: the deadline passes while     *)
(* trials are pending, the stream of a trial is longer than the sizes of   *)
(* other candidates, and the Zopfli deflater fails.                        *)
(***************************************************************************)

(* The longest compressed stream of the images below *)
MaxLongIdat == 3

(* Images whose streams are short (1) or longer than another image's
   estimated output size (MaxLongIdat). *)
LongImageInputs ==
    {[data_len |-> 1, overhead |-> 1, idat_len |-> l] :
        l \in [FilterSet -> {1, MaxLongIdat}]}

(* The time given by Options::timeout runs out: Deadline::passed() answers
   true from now on. *)
DeadlinePasses ==
    /\ ~deadline_passed
    /\ deadline_passed' = TRUE
    /\ UNCHANGED <<nonEvalVars, calls, nth, executed, best_candidate_size, eval_channel, senders,
                   imgTask, trial, mainPc, nthSeen, acc, result, set_sizes, sent>>

(* deflater.deflate(..) with the Zopfli deflater when zopfli::compress
   fails: Err(PngError::Other("Failed to compress in zopfli")).  In
   evaluate.rs:155-198 the result matches neither `Ok(..)` nor
   `Err(DeflatedDataTooLong(..))`, the closure ends. *)
TrialDeflateFails(n, f) ==
    /\ trial[n][f] = "filter"
    /\ trial' = [trial EXCEPT ![n][f] = "failed"]
    /\ UNCHANGED <<nonEvalVars, calls, nth, executed, best_candidate_size, eval_channel, senders,
                   imgTask, mainPc, nthSeen, acc, result, deadline_passed,
                   set_sizes, sent>>

NextFaults ==
    \/ TryImageFrom(LongImageInputs)
    \/ DeadlinePasses
    \/ \E n \in 1..MaxImages : TaskStart(n)
    \/ \E n \in 1..MaxImages : \E f \in FilterSet : TrialDeadline(n, f)
    \/ \E n \in 1..MaxImages : \E f \in FilterSet : TrialDeflate(n, f)
    \/ \E n \in 1..MaxImages : \E f \in FilterSet : TrialDeflateFails(n, f)
    \/ \E n \in 1..MaxImages : \E f \in FilterSet : TrialCheck(n, f)
    \/ \E n \in 1..MaxImages : \E f \in FilterSet : TrialSetMin(n, f)
    \/ \E n \in 1..MaxImages : \E f \in FilterSet : TrialSend(n, f)
    \/ \E n \in 1..MaxImages : TaskEnd(n)
    \/ GetBestBegin
    \/ GetBestWaited
    \/ GetBestRecv
    \/ GetBestReturn

(***************************************************************************)
(* The evaluator with set_best_size called at any time before              *)
(* get_best_candidate: the method takes &self and has no precondition      *)
(* (evaluate.rs:114-117).                                                  *)
(***************************************************************************)

(* The sizes given to set_best_size: below every candidate, and between the
   candidates of a short and of a long stream *)
BestSizes == {1, MaxLongIdat}

(* The number of set_best_size calls *)
MaxBestCalls == 2

(* Evaluator::set_best_size, called at any time while the Evaluator is owned:
   before images are submitted, between them, or while trials run. *)
SetBestSizeAnytime ==
    /\ mainPc = "open"
    /\ Cardinality(set_sizes) < MaxBestCalls
    /\ \E size \in BestSizes :
          /\ size \notin set_sizes
          /\ best_candidate_size' = AtomicMinSetMin(best_candidate_size, size)
          /\ set_sizes' = set_sizes \cup {size}
    /\ UNCHANGED <<nonEvalVars, calls, nth, executed, eval_channel, senders, imgTask, trial,
                   mainPc, nthSeen, acc, result, deadline_passed, sent>>

NextBest ==
    \/ SetBestSizeAnytime
    \/ TryImageFrom(LongImageInputs)
    \/ \E n \in 1..MaxImages : TaskStart(n)
    \/ \E n \in 1..MaxImages : \E f \in FilterSet : TrialDeadline(n, f)
    \/ \E n \in 1..MaxImages : \E f \in FilterSet : TrialDeflate(n, f)
    \/ \E n \in 1..MaxImages : \E f \in FilterSet : TrialCheck(n, f)
    \/ \E n \in 1..MaxImages : \E f \in FilterSet : TrialSetMin(n, f)
    \/ \E n \in 1..MaxImages : \E f \in FilterSet : TrialSend(n, f)
    \/ \E n \in 1..MaxImages : TaskEnd(n)
    \/ GetBestBegin
    \/ GetBestWaited
    \/ GetBestRecv
    \/ GetBestReturn

InitEval == EvalInit /\ FilterOff /\ RedOff /\ OptOff /\ WithOff /\ DeflOff /\ PresetOff /\ MainOff /\ PoolOff /\ PaethOff /\ CascOff /\ ApngOff

SpecEval == InitEval /\ [][NextEval]_vars

SpecFaults == InitEval /\ [][NextFaults]_vars

SpecBest == InitEval /\ [][NextBest]_vars

(***************************************************************************)
(* Claims about the evaluator                                              *)
(***************************************************************************)

(* The order of claim C1 on candidates: estimated_output_size ascending,
   image.data.len() ascending, filter ascending, sequence number descending. *)
Preferred(a, b) ==
    \/ a.estimated_output_size < b.estimated_output_size
    \/ /\ a.estimated_output_size = b.estimated_output_size
       /\ calls[a.image].data_len < calls[b.image].data_len
    \/ /\ a.estimated_output_size = b.estimated_output_size
       /\ calls[a.image].data_len = calls[b.image].data_len
       /\ a.filter < b.filter
    \/ /\ a.estimated_output_size = b.estimated_output_size
       /\ calls[a.image].data_len = calls[b.image].data_len
       /\ a.filter = b.filter
       /\ a.nth > b.nth

(* C1: once get_best_candidate has returned, its result is the emitted
   candidate that is strictly preferred to every other emitted candidate
   under (estimated_output_size asc, data length asc, filter asc, sequence
   number desc); it is None exactly when nothing was emitted. *)
C1_BestIsUniqueMinimum ==
    mainPc = "returned" =>
        IF sent = {} THEN result = None
        ELSE /\ IsSome(result)
             /\ Unwrap(result) \in sent
             /\ \A c \in sent \ {Unwrap(result)} : Preferred(Unwrap(result), c)

(* Two emitted candidates tie on size, data length and filter, and the one of
   the later try_image call was returned. *)
C1_Witness ==
    /\ mainPc = "returned"
    /\ IsSome(result)
    /\ \E c \in sent :
          /\ c.estimated_output_size = Unwrap(result).estimated_output_size
          /\ calls[c.image].data_len = calls[Unwrap(result).image].data_len
          /\ c.filter = Unwrap(result).filter
          /\ c.nth < Unwrap(result).nth

(* C2: with the deadline never passing, the candidate returned by the
   parallel evaluator equals, in every interleaving of the trial tasks, the
   candidate the serial evaluator returns for the same calls. *)
C2_SameAsSerial ==
    (mainPc = "returned" /\ ~deadline_passed) => result = SerialBest

(* The parallel run pruned a trial that the serial run emits, and a
   candidate was returned. *)
C2_Witness ==
    /\ mainPc = "returned"
    /\ IsSome(result)
    /\ Len(calls) = MaxImages
    /\ NewCandidate(1, filters[1]) \notin sent
    /\ Unwrap(result).image = MaxImages

(* C3: after set_best_size(b) before any submission, no candidate with
   estimated_output_size > b is emitted or returned; when every trial's
   estimated size exceeds b, get_best_candidate returns None. *)
C3_BoundRespected ==
    \A b \in set_sizes :
        /\ \A c \in sent : c.estimated_output_size <= b
        /\ \A i \in 1..Len(eval_channel) : eval_channel[i].estimated_output_size <= b
        /\ IsSome(acc) => Unwrap(acc).estimated_output_size <= b
        /\ IsSome(result) => Unwrap(result).estimated_output_size <= b
        /\ ( /\ mainPc = "returned"
             /\ \A n \in 1..Len(calls) : \A f \in FilterSet :
                    NewCandidate(n, f).estimated_output_size > b )
           => result = None

(* Every trial of two submitted images exceeded the bound although some
   compressed stream fitted it, and None was returned. *)
C3_Witness ==
    /\ mainPc = "returned"
    /\ result = None
    /\ Len(calls) = MaxImages
    /\ \E b \in set_sizes :
          /\ \A n \in 1..Len(calls) : \A f \in FilterSet :
                 NewCandidate(n, f).estimated_output_size > b
          /\ \E n \in 1..Len(calls) : \E f \in FilterSet : calls[n].idat_len[f] <= b

(* The sizes best_candidate_size has been lowered to so far: the sizes given
   to set_best_size and the estimated sizes of the candidates that passed
   set_min (evaluate.rs:179), sent or about to be. *)
KnownSizes ==
    set_sizes \cup {c.estimated_output_size : c \in sent}
              \cup {NewCandidate(n, f).estimated_output_size :
                      <<n, f>> \in {x \in (1..Len(calls)) \X FilterSet :
                                        trial[x[1]][x[2]] = "send"}}

(* C11: a trial whose deflate call failed with DeflatedDataTooLong (its
   stream is longer than a size known by then) emits no candidate and fails
   nothing: when get_best_candidate has returned, every other trial of every
   submitted image has run to its end, and the result is the least emitted
   candidate under cmp_key, None only when nothing was emitted. *)
C11_TooLongTrialIsDropped ==
    /\ \A n \in 1..Len(calls) : \A f \in FilterSet :
          trial[n][f] = "too_long" =>
              /\ NewCandidate(n, f) \notin sent
              /\ \E b \in KnownSizes : calls[n].idat_len[f] > b
    /\ mainPc = "returned" =>
          /\ \A n \in 1..Len(calls) : \A f \in FilterSet :
                 trial[n][f] \in TrialOver
          /\ IF sent = {} THEN result = None
             ELSE /\ IsSome(result)
                  /\ Unwrap(result) \in sent
                  /\ \A c \in sent : ~KeyLess(cmp_key(c), cmp_key(Unwrap(result)))

(* A trial was dropped by DeflatedDataTooLong, the other trial of its image
   and a trial of the other image emitted candidates, and one was returned. *)
C11_Witness ==
    /\ mainPc = "returned"
    /\ IsSome(result)
    /\ Len(calls) = MaxImages
    /\ \E n \in 1..Len(calls) : \E f \in FilterSet :
          /\ trial[n][f] = "too_long"
          /\ \E g \in FilterSet \ {f} : NewCandidate(n, g) \in sent
          /\ \E m \in 1..Len(calls) \ {n} : \E g \in FilterSet : NewCandidate(m, g) \in sent

(* C12: an error other than DeflatedDataTooLong inside an evaluator trial
   (the deflater failed) surfaces as the error result of the file: the
   evaluation of that file does not return a result as if nothing had
   happened. *)
C12_TrialErrorSurfaces ==
    mainPc = "returned" =>
        \A n \in 1..Len(calls) : \A f \in FilterSet : trial[n][f] # "failed"

(* The positions of a trial that has not begun filtering *)
NotBegun == {"idle", "ready"}

(* C14: once the deadline has passed, a trial that has not begun filtering
   never begins (it ends at the deadline check) and emits no candidate; the
   candidates emitted so far are never withdrawn, and get_best_candidate
   returns the least of the emitted candidates, None when there are none. *)
C14_DeadlineStopsNewTrials ==
    /\ [][ /\ sent \subseteq sent'
           /\ deadline_passed =>
                 \A n \in 1..MaxImages : \A f \in FilterSet :
                     trial[n][f] \in NotBegun =>
                         /\ trial'[n][f] \in NotBegun \cup {"expired"}
                         /\ n <= Len(calls) => NewCandidate(n, f) \notin sent' ]_vars
    /\ [](\A n \in 1..Len(calls) : \A f \in FilterSet :
             trial[n][f] = "expired" => deadline_passed /\ NewCandidate(n, f) \notin sent)
    /\ [](mainPc = "returned" =>
             /\ result = None <=> sent = {}
             /\ IsSome(result) =>
                   /\ Unwrap(result) \in sent
                   /\ \A c \in sent : ~KeyLess(cmp_key(c), cmp_key(Unwrap(result))))

(* The deadline passed after a candidate was emitted and before another
   trial began; that trial ended at the deadline check and the candidate
   emitted earlier was returned. *)
C14_Witness ==
    /\ mainPc = "returned"
    /\ deadline_passed
    /\ IsSome(result)
    /\ \E n \in 1..Len(calls) : \E f \in FilterSet : trial[n][f] = "expired"

(* C18: when get_best_candidate has selected its result, every task of
   every earlier try_image call has ended with each of its trials over
   (candidate emitted, or trial dropped), nothing is left in the channel,
   and every emitted candidate took part in the selection: none is before
   the result in the order of cmp_key. *)
C18_SelectsAfterAllTrials ==
    mainPc = "returned" =>
        /\ nthSeen = Len(calls)
        /\ \A n \in 1..Len(calls) :
              /\ imgTask[n] = "finished"
              /\ \A f \in FilterSet : trial[n][f] \in TrialOver
        /\ eval_channel = <<>>
        /\ \A c \in sent :
              IsSome(result) /\ ~KeyLess(cmp_key(c), cmp_key(Unwrap(result)))

(* Every trial of every image emitted its candidate before the selection. *)
C18_Witness ==
    /\ mainPc = "returned"
    /\ Len(calls) = MaxImages
    /\ Cardinality(sent) = MaxImages * NumFilters
    /\ IsSome(result)

(* The least element of a non-empty set of sizes *)
MinOf(S) == CHOOSE m \in S : \A x \in S : m <= x

(* best_candidate_size is the minimum of the sizes given to set_best_size
   and of the estimated sizes of the candidates emitted (sent, or past
   set_min and about to be sent), and is unset when there are none. *)
BestIsMinimum ==
    IF KnownSizes = {} THEN best_candidate_size = None
    ELSE best_candidate_size = Some(MinOf(KnownSizes))

(* C29 as stated: the shared best size never increases: after any sequence
   of set_best_size calls and trial completions, in any interleaving, it is
   the minimum of all values passed to set_best_size and of the estimated
   sizes of all emitted candidates (a minimum over sets that only grow); and
   whenever get_best_candidate returns a candidate, its
   estimated_output_size equals the final best size. *)
C29_ReturnedSizeIsBestSize ==
    /\ BestIsMinimum
    /\ (mainPc = "returned" /\ IsSome(result)) =>
          Some(Unwrap(result).estimated_output_size) = best_candidate_size

(* C29 amended: the shared best size never increases and is the minimum of
   all values passed to set_best_size and of the estimated sizes of all
   emitted candidates; whenever get_best_candidate returns a candidate, its
   estimated_output_size is the least of the emitted candidates' and is not
   below the final best size: it equals the final best size unless a value
   below it was passed to set_best_size. *)
C29_BestSizeIsMinimum ==
    /\ [](/\ BestIsMinimum
          /\ (mainPc = "returned" /\ IsSome(result)) =>
                LET size == Unwrap(result).estimated_output_size
                IN  /\ size = MinOf({c.estimated_output_size : c \in sent})
                    /\ size >= Unwrap(best_candidate_size)
                    /\ size = Unwrap(best_candidate_size) <=>
                          (\A s \in set_sizes : s >= size))
    /\ [][IsSome(best_candidate_size) =>
             /\ IsSome(best_candidate_size')
             /\ Unwrap(best_candidate_size') <= Unwrap(best_candidate_size)]_vars

(* Two sizes were given to set_best_size, one of them below the candidates
   emitted before it, two candidates were emitted, and the candidate
   returned is larger than the final best size. *)
C29_Witness ==
    /\ mainPc = "returned"
    /\ IsSome(result)
    /\ Cardinality(set_sizes) = MaxBestCalls
    /\ Cardinality(sent) >= 2
    /\ Unwrap(best_candidate_size) < Unwrap(result).estimated_output_size

(***************************************************************************)
(* Claims about the evaluator on the worker pool                           *)
(***************************************************************************)
InitPool == EvalInit /\ FilterOff /\ RedOff /\ OptOff /\ WithOff /\ DeflOff /\ PresetOff /\ MainOff /\ PoolInit /\ PaethOff /\ CascOff /\ ApngOff

SpecPool == InitPool /\ [][NextPool]_vars /\ PoolFairness

(* C19: with a fair pool whose tasks terminate, get_best_candidate, once
   called, eventually returns, also when the caller is a worker of the pool
   that runs the tasks. *)
C19_GetBestReturns == (pl_pc = "wait") ~> (pl_pc = "returned")

(* get_best_candidate returned on the only worker of the pool, after it
   started every task itself. *)
C19_Witness ==
    /\ pl_pc = "returned"
    /\ pl_in_pool
    /\ pl_workers = 1
    /\ pl_nth = MaxPoolTasks
    /\ \A n \in 1..MaxPoolTasks : pl_thread[n] = 1

(***************************************************************************)
(* Claims about paeth_predictor                                            *)
(***************************************************************************)
InitPaeth == EvalInit /\ FilterOff /\ RedOff /\ OptOff /\ WithOff /\ DeflOff /\ PresetOff /\ MainOff /\ PoolOff /\ PaethInit /\ CascOff /\ ApngOff

SpecPaeth == InitPaeth /\ [][NextPaeth]_vars

(* The distance of two integers *)
Distance(x, y) == IF x >= y THEN x - y ELSE y - x

(* C20: paeth_predictor(a, b, c) returns the one of a (left), b (up) and
   c (upleft) that is nearest to p = a + b - c, computed in the integers;
   of several nearest it returns a before b before c. *)
C20_PaethNearest ==
    IsSome(pth_ret) =>
        LET p == pth_a + pth_b - pth_c
            least == Min2(Distance(p, pth_a), Min2(Distance(p, pth_b), Distance(p, pth_c)))
        IN  Unwrap(pth_ret) =
               IF Distance(p, pth_a) = least THEN pth_a
               ELSE IF Distance(p, pth_b) = least THEN pth_b
               ELSE pth_c

(* left and upleft are different bytes equally near to p, up is farther,
   and left was returned. *)
C20_Witness ==
    /\ IsSome(pth_ret)
    /\ pth_a # pth_c
    /\ Distance(pth_a + pth_b - pth_c, pth_a) = Distance(pth_a + pth_b - pth_c, pth_c)
    /\ Distance(pth_a + pth_b - pth_c, pth_b) > Distance(pth_a + pth_b - pth_c, pth_a)
    /\ Unwrap(pth_ret) = pth_a

(***************************************************************************)
(* Claims about deflate                                                    *)
(***************************************************************************)
InitDeflate == EvalInit /\ FilterOff /\ RedOff /\ OptOff /\ WithOff /\ DeflInit /\ PresetOff /\ MainOff /\ PoolOff /\ PaethOff /\ CascOff /\ ApngOff

SpecDeflate == InitDeflate /\ [][NextDeflate]_vars

(* C13: with a max_size, deflate returns Ok only with an output of at most
   max_size bytes and every failure is DeflatedDataTooLong carrying max_size;
   without a max_size deflate does not fail. *)
C13_DeflateContract ==
    d_pc = "done" =>
        LET ret == Unwrap(d_ret)
        IN  IF IsSome(d_max_size)
            THEN /\ ret.ok => ret.len <= Unwrap(d_max_size)
                 /\ ~ret.ok => ret.too_long = Unwrap(d_max_size)
            ELSE ret.ok

(***************************************************************************)
(* Claims about the presets                                                *)
(***************************************************************************)
InitPreset == EvalInit /\ FilterOff /\ RedOff /\ OptOff /\ WithOff /\ DeflOff /\ PresetInit /\ MainOff /\ PoolOff /\ PaethOff /\ CascOff /\ ApngOff

SpecPreset == InitPreset /\ [][NextPreset]_vars

(* The elements of a sequence *)
Range(seq) == {seq[i] : i \in 1..Len(seq)}

(* The preset table of claim C15: deflater level, filter set, fast_evaluation *)
PresetTable(n) ==
    CASE n = 0 -> <<5, {}, TRUE>>
      [] n = 1 -> <<10, {}, TRUE>>
      [] n = 2 -> <<11, {<<"None">>, <<"Sub">>, <<"Entropy">>, <<"Bigrams">>}, TRUE>>
      [] n = 3 -> <<11, {<<"None">>, <<"Bigrams">>, <<"BigEnt">>, <<"Brute", 3, 1>>}, FALSE>>
      [] n = 4 -> <<12, {<<"None">>, <<"Bigrams">>, <<"BigEnt">>, <<"Brute", 4, 1>>}, FALSE>>
      [] n = 5 -> <<12, {<<"None">>, <<"Sub">>, <<"Up">>, <<"MinSum">>, <<"Entropy">>,
                         <<"Bigrams">>, <<"BigEnt">>, <<"Brute", 4, 4>>}, FALSE>>
      [] n >= 6 -> <<12, {<<"None">>, <<"Sub">>, <<"Up">>, <<"Average">>, <<"Paeth">>,
                          <<"MinSum">>, <<"Entropy">>, <<"Bigrams">>, <<"BigEnt">>,
                          <<"Brute", 8, 5>>}, FALSE>>

(* C15: Options::from_preset(n) has the deflater level, the filter set and
   the fast_evaluation flag of the preset table, each filter once; every
   n >= 7 gives the options of 6. *)
C15_PresetTable ==
    IsSome(pr_opts) =>
        LET n == Unwrap(pr_level)
            o == Unwrap(pr_opts)
        IN  /\ o.deflater.compression = PresetTable(n)[1]
            /\ Range(o.filters) = PresetTable(n)[2]
            /\ Len(o.filters) = Cardinality(PresetTable(n)[2])
            /\ o.fast_evaluation = PresetTable(n)[3]
            /\ n >= 7 => o = from_preset(6)

(* from_preset was called with a level that has no preset of its own *)
C15_Witness ==
    /\ IsSome(pr_opts)
    /\ Unwrap(pr_level) = U8_MAX

(***************************************************************************)
(* Claims about main                                                       *)
(***************************************************************************)
InitMain == EvalInit /\ FilterOff /\ RedOff /\ OptOff /\ WithOff /\ DeflOff /\ PresetOff /\ MainInit /\ PoolOff /\ PaethOff /\ CascOff /\ ApngOff

SpecMain == InitMain /\ [][NextMain]_vars

(* The errors that skip a file without counting it as failed *)
SkipErrors == {"C2PAMetadataPreventsChanges", "InflatedDataTooLong"}

(* C17: an error on one file prevents no other file from being processed
   (every file has its result when main exits, whatever the others
   returned), and the exit status is SUCCESS if a file succeeded, otherwise
   FAILURE if a file failed with an error other than
   C2PAMetadataPreventsChanges or InflatedDataTooLong, otherwise 3. *)
C17_ExitStatus ==
    /\ \A i \in 1..Len(m_files) :
          IsSome(m_results[i]) => Unwrap(m_results[i]) = process_file(m_files[i])
    /\ m_pc = "exited" =>
          /\ \A i \in 1..Len(m_files) : IsSome(m_results[i])
          /\ m_exit =
                IF \E i \in 1..Len(m_files) : Unwrap(m_results[i]) = "Ok" THEN "SUCCESS"
                ELSE IF \E i \in 1..Len(m_files) :
                           Unwrap(m_results[i]) \notin SkipErrors THEN "FAILURE"
                ELSE "3"

(* The first file failed, a later file succeeded and main exited with
   SUCCESS. *)
C17_Witness ==
    /\ m_pc = "exited"
    /\ Len(m_files) >= 2
    /\ Unwrap(m_results[1]) = "NotPNG"
    /\ Unwrap(m_results[Len(m_files)]) = "Ok"
    /\ m_exit = "SUCCESS"

(***************************************************************************)
(* Claims about the row filters                                            *)
(***************************************************************************)
InitFilter == EvalInit /\ FilterInit /\ RedOff /\ OptOff /\ WithOff /\ DeflOff /\ PresetOff /\ MainOff /\ PoolOff /\ PaethOff /\ CascOff /\ ApngOff

SpecFilter == InitFilter /\ [][NextFilter]_vars

(* C4: for every RowFilter, bpp >= 1 and equal-length rows with
   data.len() >= bpp, filter_line with alpha_bytes = 0 followed by
   unfilter_line of the output without its filter byte yields data again. *)
C4_FilterRoundTrip ==
    (f_pc = "unfiltered" /\ f_alpha = 0) => f_out = f_data0

(* A Paeth round trip over a full-length row with bpp = 2 whose filtered
   bytes differ from the data. *)
C4_Witness ==
    /\ f_pc = "unfiltered"
    /\ f_alpha = 0
    /\ f_self = RF_Paeth
    /\ f_bpp = 2
    /\ Len(f_data0) = MaxRowLen
    /\ Tail(f_buf) # f_data0
    /\ f_out = f_data0

(* left = cur[i - bpp] and upleft = prev[i - bpp] of the PNG filters, 0 for
   the first pixel of the row (0-based i) *)
LeftOf(cur, bpp, i) == IF i >= bpp THEN cur[i - bpp + 1] ELSE 0
UpleftOf(prev, bpp, i) == IF i >= bpp THEN prev[i - bpp + 1] ELSE 0

(* The predictor the PNG filter `self` subtracts at the 0-based position i *)
Predictor(self, bpp, cur, prev, i) ==
    CASE self = RF_None -> 0
      [] self = RF_Sub -> LeftOf(cur, bpp, i)
      [] self = RF_Up -> prev[i + 1]
      [] self = RF_Average -> (LeftOf(cur, bpp, i) + prev[i + 1]) \div 2
      [] self = RF_Paeth ->
            paeth_predictor(LeftOf(cur, bpp, i), prev[i + 1], UpleftOf(prev, bpp, i))

(* C21: with alpha_bytes = 0, filter_line writes the filter's type code
   (0..4) followed by exactly data.len() bytes, byte i being cur[i] minus the
   filter's predictor modulo 256: nothing for None, left for Sub, prev[i] for
   Up, floor((left + prev[i]) / 2) for Average with the sum not cut to 8
   bits, PaethPredictor(left, prev[i], upleft) for Paeth, where left and
   upleft are 0 for i < bpp. *)
C21_FilterLineBytes ==
    (f_pc \in {"filtered", "unfiltered"} /\ f_alpha = 0) =>
        /\ Len(f_buf) = Len(f_data0) + 1
        /\ f_buf[1] = f_self
        /\ f_buf[1] \in 0..4
        /\ \A i \in 0..(Len(f_data0) - 1) :
              f_buf[i + 2] =
                  (f_data0[i + 1] - Predictor(f_self, f_bpp, f_data0, f_prev, i) + 256) % 256

(* An Average line with a byte past the first pixel whose left and up sum
   to more than 255. *)
C21_Witness ==
    /\ f_pc = "filtered"
    /\ f_alpha = 0
    /\ f_self = RF_Average
    /\ \E i \in f_bpp..(Len(f_data0) - 1) :
          /\ f_data0[i - f_bpp + 1] + f_prev[i + 1] > 255
          /\ f_buf[i + 2] # f_data0[i + 1]

InitAlpha == EvalInit /\ AlphaInit /\ RedOff /\ OptOff /\ WithOff /\ DeflOff /\ PresetOff /\ MainOff /\ PoolOff /\ PaethOff /\ CascOff /\ ApngOff

SpecAlpha == InitAlpha /\ [][NextFilter]_vars

(* The pixels of a scanline, 0-based, and those of them that are fully
   transparent in the scanline as passed to filter_line *)
PixelsIn(data, bpp) == 0..((Len(data) \div bpp) - 1)
Transparent0(i) ==
    \A j \in (f_bpp - f_alpha)..(f_bpp - 1) : f_data0[i * f_bpp + j + 1] = 0
Opaque0 == {k \in PixelsIn(f_data0, f_bpp) : ~Transparent0(k)}

(* The pixel whose color Sub is said to copy into the transparent pixel i:
   the nearest non-transparent pixel to the left, else the next one to the
   right *)
SubSource(i) ==
    LET left == {k \in Opaque0 : k < i}
        right == {k \in Opaque0 : k > i}
    IN  IF left # {} THEN CHOOSE k \in left : \A m \in left : m <= k
        ELSE CHOOSE k \in right : \A m \in right : k <= m

(* The color byte j the transparent pixel i is said to receive; left and
   upleft are 0 for the first pixel, left is the byte filter_line then finds
   to the left *)
SaidColor(i, j) ==
    LET up == PixelByte(f_prev, f_bpp, i, j)
        left == IF i = 0 THEN 0 ELSE PixelByte(f_data, f_bpp, i - 1, j)
        upleft == IF i = 0 THEN 0 ELSE PixelByte(f_prev, f_bpp, i - 1, j)
    IN  CASE f_self = RF_Sub -> PixelByte(f_data0, f_bpp, SubSource(i), j)
          [] f_self = RF_Up -> up
          [] f_self = RF_Average -> (left + up) \div 2
          [] f_self = RF_Paeth -> paeth_predictor(left, up, upleft)

AlphaOptimized ==
    /\ f_pc \in {"filtered", "unfiltered"}
    /\ f_alpha # 0
    /\ f_self # RF_None

(* C22: with alpha optimization, every fully transparent pixel of a scanline
   that has a non-transparent pixel, the first pixel of the row included,
   has its color bytes overwritten: Sub copies the nearest non-transparent
   pixel to the left, or the next one to the right if the row starts
   transparent; Up copies the pixel above; Average stores (left + up) >> 1;
   Paeth stores PaethPredictor(left, up, upleft), left and upleft being 0 for
   the first pixel. *)
C22_AlphaOverwrite ==
    (AlphaOptimized /\ Opaque0 # {}) =>
        \A i \in PixelsIn(f_data0, f_bpp) : \A j \in 0..(f_bpp - f_alpha - 1) :
            Transparent0(i) => PixelByte(f_data, f_bpp, i, j) = SaidColor(i, j)

(* C23: with alpha optimization and a filter other than None, the color
   bytes of every fully transparent pixel of the scanline are zero in the
   filtered line that filter_line produces. *)
C23_TransparentFilteredToZero ==
    AlphaOptimized =>
        \A i \in PixelsIn(f_data0, f_bpp) : \A j \in 0..(f_bpp - f_alpha - 1) :
            Transparent0(i) => f_buf[1 + i * f_bpp + j + 1] = 0

(* C24: alpha optimization changes only the color bytes of the pixels whose
   alpha bytes are all zero: the length of the scanline, every alpha byte and
   every byte of a pixel with a non-zero alpha byte stay as they were, for
   every filter; with filter None the whole scanline stays as it was; and
   prev_line is never changed. *)
C24_AlphaFrame ==
    /\ []((f_pc \in {"filtered", "unfiltered"} /\ f_alpha # 0) =>
            /\ Len(f_data) = Len(f_data0)
            /\ \A k \in 0..(Len(f_data0) - 1) :
                  (\/ k \div f_bpp \notin PixelsIn(f_data0, f_bpp)
                   \/ k % f_bpp >= f_bpp - f_alpha
                   \/ ~Transparent0(k \div f_bpp)) => f_data[k + 1] = f_data0[k + 1]
            /\ f_self = RF_None => f_data = f_data0)
    /\ [][f_prev' = f_prev]_vars

(* An Up line in which a transparent pixel was given a new color next to a
   non-transparent pixel whose color differs from the one above it. *)
C24_Witness ==
    /\ f_pc = "filtered"
    /\ f_alpha # 0
    /\ f_self = RF_Up
    /\ \E i, k \in PixelsIn(f_data0, f_bpp) :
          /\ Transparent0(i)
          /\ f_data[i * f_bpp + 1] # f_data0[i * f_bpp + 1]
          /\ ~Transparent0(k)
          /\ f_data[k * f_bpp + 1] # f_prev[k * f_bpp + 1]

(***************************************************************************)
(* Claims about the reductions                                             *)
(***************************************************************************)
InitReduce == EvalInit /\ FilterOff /\ RedInit /\ OptOff /\ WithOff /\ DeflOff /\ PresetOff /\ MainOff /\ PoolOff /\ PaethOff /\ CascOff /\ ApngOff

SpecReduce == InitReduce /\ [][NextReduce]_vars

(* C5: whenever reduced_palette returns an image for an Indexed input of bit
   depth 2, 4 or 8, each pixel's new index lies in the new palette and names
   the color its old index named (an old index beyond the palette end being
   opaque black), and width, height and bit depth are unchanged. *)
C5_PaletteReductionKeepsPixels ==
    last_reduction = "palette" =>
        /\ png_before.ihdr.bit_depth \in {2, 4, 8}
        /\ png.ihdr.width = png_before.ihdr.width
        /\ png.ihdr.height = png_before.ihdr.height
        /\ png.ihdr.bit_depth = png_before.ihdr.bit_depth
        /\ Len(png.lines) = Len(png_before.lines)
        /\ \A l \in 1..Len(png.lines) : \A x \in 0..(png.ihdr.width - 1) :
              LET i == IndexAt(png_before.lines[l].data, png_before.ihdr.bit_depth, x)
                  j == IndexAt(png.lines[l].data, png.ihdr.bit_depth, x)
              IN  /\ j < Len(Unwrap(png.palette))
                  /\ Unwrap(png.palette)[j + 1] =
                        (IF i < Len(Unwrap(png_before.palette))
                         THEN Unwrap(png_before.palette)[i + 1]
                         ELSE <<0, 0, 0, 255>>)

(* A palette reduction of an image with a pixel index beyond the palette end
   and two pixels whose indices changed. *)
C5_Witness ==
    /\ last_reduction = "palette"
    /\ png.ihdr.width = MaxWidth
    /\ \E x \in 0..(png.ihdr.width - 1) :
          IndexAt(png_before.lines[1].data, png_before.ihdr.bit_depth, x)
             >= Len(Unwrap(png_before.palette))
    /\ \A x \in 0..(png.ihdr.width - 1) :
          IndexAt(png_before.lines[1].data, png_before.ihdr.bit_depth, x)
             # IndexAt(png.lines[1].data, png.ihdr.bit_depth, x)

(* C6: every Indexed image produced by palette reduction, color-to-palette
   or bit-depth reduction, in any sequence, has palette.len() <= 2^bit_depth
   and every pixel index stored in its data below palette.len(). *)
C6_IndexedWellFormed ==
    (produced /\ png.ihdr.color_type = "Indexed") =>
        /\ Len(Unwrap(png.palette)) <= Pow2(png.ihdr.bit_depth)
        /\ IndicesInRange(png)

(* A packed image produced by palette reduction whose input had an index
   beyond the palette end. *)
C6_Witness ==
    /\ produced
    /\ last_reduction = "palette"
    /\ png.ihdr.bit_depth = 2
    /\ Len(Unwrap(png.palette)) >= 2
    /\ ~IndicesInRange(png_before)

(* The colors the pixels of an image decode to *)
ReferencedColors(image) ==
    {DecodedPixel(image, q[1], q[2]) : q \in PixelsOf(image)}

(* (alpha << 18) - 299R - 587G - 114B of a color <<r, g, b, a>> *)
SortKey(color) == color[4] * 262144 - 299 * color[1] - 587 * color[2] - 114 * color[3]

(* C25: whenever reduced_palette returns an image, its palette consists of
   exactly the distinct colors referenced by at least one pixel, each once,
   ordered by ascending alpha and, among equal alpha, by descending luma:
   the key (alpha << 18) - 299R - 587G - 114B never decreases along it. *)
C25_PaletteExactAndSorted ==
    last_reduction = "palette" =>
        LET pal == Unwrap(png.palette)
        IN  /\ {pal[k] : k \in 1..Len(pal)} = ReferencedColors(png_before)
            /\ \A k, m \in 1..Len(pal) : k # m => pal[k] # pal[m]
            /\ \A k, m \in 1..Len(pal) : k < m => SortKey(pal[k]) <= SortKey(pal[m])

(* C26: when palette reduction is applied to an image with a bKGD chunk
   whose index lies in the palette, the index is remapped like the pixels:
   after the reduction it is a valid index of the new palette and denotes
   the same background color as before. *)
C26_BkgdRemapped ==
    (/\ last_reduction = "palette"
     /\ IsSome(png_before.bkgd)
     /\ Unwrap(png_before.bkgd) < Len(Unwrap(png_before.palette))) =>
        /\ IsSome(png.bkgd)
        /\ Unwrap(png.bkgd) < Len(Unwrap(png.palette))
        /\ Unwrap(png.palette)[Unwrap(png.bkgd) + 1] =
               Unwrap(png_before.palette)[Unwrap(png_before.bkgd) + 1]

(***************************************************************************)
(* Claims about reduce_color_type                                          *)
(***************************************************************************)
InitColorType == EvalInit /\ FilterOff /\ ColorTypeInit /\ OptOff /\ WithOff /\ DeflOff /\ PresetOff /\ MainOff /\ PoolOff /\ PaethOff /\ CascOff /\ ApngOff

SpecColorType == InitColorType /\ [][NextColorType]_vars

(* An 8-bit RGBA image in which every pixel has R=G=B and alpha=255 *)
OpaqueGrayRGBA(image) ==
    /\ image.ihdr.color_type = "RGBA"
    /\ image.ihdr.bit_depth = 8
    /\ \A q \in PixelsOf(image) :
          LET c == DecodedPixel(image, q[1], q[2])
          IN  c[1] = c[2] /\ c[2] = c[3] /\ c[4] = 255

(* C16: for an 8-bit RGBA image in which every pixel has R=G=B and
   alpha=255, reduce_color_type returns an image, and the image it returned
   is Grayscale, of the same width and height, with the decoded pixels of
   the input. *)
C16_OpaqueGrayBecomesGrayscale ==
    /\ (last_reduction = "none" /\ OpaqueGrayRGBA(png)) => IsSome(reduce_color_type(png))
    /\ (last_reduction = "color_type" /\ OpaqueGrayRGBA(png_before)) =>
          /\ png.ihdr.color_type = "Grayscale"
          /\ png.ihdr.width = png_before.ihdr.width
          /\ png.ihdr.height = png_before.ihdr.height
          /\ Len(png.lines) = Len(png_before.lines)
          /\ \A q \in PixelsOf(png_before) :
                 DecodedPixel(png, q[1], q[2]) = DecodedPixel(png_before, q[1], q[2])

(* reduce_color_type turned an opaque gray RGBA image of two different
   pixels into a Grayscale image of fewer than 8 bits. *)
C16_Witness ==
    /\ last_reduction = "color_type"
    /\ OpaqueGrayRGBA(png_before)
    /\ png_before.ihdr.width = MaxWidth
    /\ DecodedPixel(png_before, 1, 0) # DecodedPixel(png_before, 1, 1)
    /\ png.ihdr.color_type = "Grayscale"
    /\ png.ihdr.bit_depth < 8

(***************************************************************************)
(* Claims about the steps of reduce_color_type                             *)
(***************************************************************************)
InitCasc == EvalInit /\ FilterOff /\ RedOff /\ OptOff /\ WithOff /\ DeflOff /\ PresetOff /\ MainOff /\ PoolOff /\ PaethOff /\ CascInit /\ ApngOff

SpecCasc == InitCasc /\ [][NextCasc]_vars

(* The stepwise run returns what reduce_color_type returns. *)
CascAgrees == c_pc = "returned" => CascReturned = reduce_color_type(c_png)

(* The RGBA step of reduce_color_type has just run on an RGBA argument *)
AfterRGBAStep == c_pc = "grayscale_alpha" /\ c_png.ihdr.color_type = "RGBA"

(* The first of the reductions a, b, c of the argument that applies, or the
   argument itself *)
FirstOf(a, b, c) ==
    IF IsSome(a) THEN Unwrap(a) ELSE IF IsSome(b) THEN Unwrap(b)
    ELSE IF IsSome(c) THEN Unwrap(c) ELSE c_png

(* C27 as stated: for an RGBA image, reduce_color_type tries RGBA ->
   GrayscaleAlpha, then RGBA -> Indexed, then RGBA -> RGB, and takes the
   first that applies: when Indexed and RGB both apply and GrayscaleAlpha
   does not, the Indexed conversion is applied to the RGBA image. *)
C27_IndexedBeforeRGB ==
    AfterRGBAStep =>
        c_st.reduced = FirstOf(reduce_rgba_to_grayscale_alpha(c_png),
                               reduced_color_to_palette(c_png),
                               reduced_alpha_channel(c_png))

(* C27 amended: for an RGBA image, reduce_color_type tries RGBA ->
   GrayscaleAlpha, then RGBA -> RGB, then RGBA -> Indexed, each only after
   the one before it failed, and takes the first that applies: when Indexed
   and RGB both apply and GrayscaleAlpha does not, the RGBA image is
   converted to RGB and the palette conversion is not called on it. *)
C27_RGBBeforeIndexed ==
    AfterRGBAStep =>
        /\ c_st.reduced = FirstOf(reduce_rgba_to_grayscale_alpha(c_png),
                                  reduced_alpha_channel(c_png),
                                  reduced_color_to_palette(c_png))
        /\ \A k \in 1..Len(c_log) :
              /\ c_log[k].fn = <<"reduce_rgba_to_grayscale_alpha", "reduced_alpha_channel",
                                 "reduced_color_to_palette">>[k]
              /\ c_log[k].some => k = Len(c_log)
        /\ (~IsSome(reduce_rgba_to_grayscale_alpha(c_png))
            /\ IsSome(reduced_alpha_channel(c_png))
            /\ IsSome(reduced_color_to_palette(c_png))) =>
               /\ c_st.reduced.ihdr.color_type = "RGB"
               /\ \A k \in 1..Len(c_log) : c_log[k].fn # "reduced_color_to_palette"

(* An RGBA image with a color that is not a gray, all pixels opaque: both
   the palette and the RGB conversion apply and RGB was taken. *)
C27_Witness ==
    /\ AfterRGBAStep
    /\ ~IsSome(reduce_rgba_to_grayscale_alpha(c_png))
    /\ IsSome(reduced_alpha_channel(c_png))
    /\ IsSome(reduced_color_to_palette(c_png))
    /\ c_st.reduced.ihdr.color_type = "RGB"
    /\ c_st.owned

(* The entries of the history that are successful reductions of the color type *)
StepsTaken ==
    {k \in 1..Len(c_log) :
        /\ c_log[k].some
        /\ c_log[k].fn \in {"reduce_rgba_to_grayscale_alpha", "reduced_alpha_channel",
                            "reduced_color_to_palette", "reduce_rgb_to_grayscale"}}

(* Those of them that are not the RGBA -> GrayscaleAlpha or RGBA -> RGB step *)
LaterStepsTaken ==
    {k \in StepsTaken :
        ~(c_log[k].on = "RGBA" /\ c_log[k].fn \in {"reduce_rgba_to_grayscale_alpha",
                                                   "reduced_alpha_channel"})}

(* The bit-depth reduction is the last call made, and when it is called on
   an Indexed image the palette reduction is the call before it *)
RunsFinalReductions ==
    /\ c_log # <<>>
    /\ c_log[Len(c_log)].fn = "reduce_bit_depth_8_or_less"
    /\ c_log[Len(c_log)].on = "Indexed" =>
          (Len(c_log) > 1 /\ c_log[Len(c_log) - 1].fn = "reduced_palette")

(* C28 as stated: whenever any color-type reduction step succeeds inside
   reduce_color_type (RGBA -> GrayscaleAlpha or RGBA -> RGB alone included),
   palette reduction is run again if the result is Indexed and bit-depth
   reduction is then attempted before the result is returned;
   reduce_color_type returns None exactly when no step succeeded. *)
C28_AnyStepRunsBitDepth ==
    c_pc = "returned" =>
        /\ StepsTaken # {} => RunsFinalReductions
        /\ CascReturned = None <=> StepsTaken = {}

(* C28 amended: palette reduction (if the result is Indexed) and then the
   attempt of bit-depth reduction are run exactly when a step other than
   RGBA -> GrayscaleAlpha and RGBA -> RGB succeeded; after one of these two
   alone neither is called; reduce_color_type returns None exactly when no
   step succeeded. *)
C28_LaterStepRunsBitDepth ==
    c_pc = "returned" =>
        /\ LaterStepsTaken # {} => RunsFinalReductions
        /\ LaterStepsTaken = {} =>
              \A k \in 1..Len(c_log) :
                  c_log[k].fn \notin {"reduced_palette", "reduce_bit_depth_8_or_less"}
        /\ CascReturned = None <=> StepsTaken = {}

(* RGBA -> GrayscaleAlpha was the only step that succeeded: the image is
   returned and bit-depth reduction was not attempted. *)
C28_Witness ==
    /\ c_pc = "returned"
    /\ StepsTaken # {}
    /\ LaterStepsTaken = {}
    /\ IsSome(CascReturned)
    /\ Unwrap(CascReturned).ihdr.color_type = "GrayscaleAlpha"
    /\ \A k \in 1..Len(c_log) : c_log[k].fn # "reduce_bit_depth_8_or_less"

(***************************************************************************)
(* Claims about Frame                                                      *)
(***************************************************************************)
InitApng == EvalInit /\ FilterOff /\ RedOff /\ OptOff /\ WithOff /\ DeflOff /\ PresetOff /\ MainOff /\ PoolOff /\ PaethOff /\ CascOff /\ ApngInit

SpecApng == InitApng /\ [][NextApng]_vars

(* The number that four bytes spell, most significant byte first *)
BigEndian4(b) ==
    ((b[1] * 256 + b[2]) * 256 + b[3]) * 256 + b[4]

IsBytes(b) == \A i \in 1..Len(b) : b[i] \in 0..255

(* The frame r has the fields of f, and no data *)
SameFrameNoData(r, f) ==
    /\ r.width = f.width
    /\ r.height = f.height
    /\ r.x_offset = f.x_offset
    /\ r.y_offset = f.y_offset
    /\ r.delay_num = f.delay_num
    /\ r.delay_den = f.delay_den
    /\ r.dispose_op = f.dispose_op
    /\ r.blend_op = f.blend_op
    /\ r.data = <<>>

(* C30: fctl_data(n) is 26 bytes whose first four are n big-endian, and    *)
(* from_fctl_data of it returns a frame with the same width, height,       *)
(* offsets, delays, dispose_op and blend_op and with empty data;           *)
(* fdat_data(n) is n big-endian followed by the frame's data unchanged;    *)
(* from_fctl_data of fewer than 26 bytes returns TruncatedData; and the    *)
(* sequence number written for a frame that was read from chunk data is    *)
(* the one given by the caller, not the one in the data read.              *)
C30_FrameChunkData ==
    /\ a_pc \in {"fctl", "rewritten"} =>
        /\ Len(a_bytes) = 26
        /\ IsBytes(a_bytes)
        /\ BigEndian4(SubSeq(a_bytes, 1, 4)) = a_n
        /\ from_fctl_data(a_bytes).ok
        /\ SameFrameNoData(from_fctl_data(a_bytes).val, a_frame)
    /\ a_pc = "fdat" =>
        /\ Len(a_bytes) = 4 + Len(a_frame.data)
        /\ IsBytes(a_bytes)
        /\ BigEndian4(SubSeq(a_bytes, 1, 4)) = a_n
        /\ SubSeq(a_bytes, 5, Len(a_bytes)) = a_frame.data
    /\ a_pc = "parsed" =>
        /\ Len(a_in) < 26 => a_res = FrameErr("TruncatedData")
        /\ Len(a_in) >= 26 => a_res.ok /\ SameFrameNoData(a_res.val, a_frame)

(* A frame read from chunk data with one sequence number is written with   *)
(* another, every byte of which differs from its neighbours.               *)
C30_Witness ==
    /\ a_pc = "rewritten"
    /\ BigEndian4(SubSeq(a_in, 1, 4)) = 2147483647
    /\ a_n = 16909060
    /\ a_frame.width = 16909060
    /\ a_frame.delay_num = 513
    /\ Len(a_in) = 26

(***************************************************************************)
(* Claims about optimize                                                   *)
(***************************************************************************)
InitOptimize == EvalInit /\ FilterOff /\ RedOff /\ OptInit /\ WithOff /\ DeflOff /\ PresetOff /\ MainOff /\ PoolOff /\ PaethOff /\ CascOff /\ ApngOff

SpecOptimize == InitOptimize /\ [][NextOptimize]_vars

(* C7: unless force is set, optimize never writes an output larger than the
   input file: whenever the produced output is longer than the input and
   force is false, nothing is written, whatever the other options are, a
   requested interlacing change included. *)
C7_NeverWritesLarger ==
    (IsSome(output_len) /\ Unwrap(output_len) > in_file.size /\ ~opts.force) =>
        (files.out_file = None /\ files.stdout = None)

(* C8: if any reduction (bit depth, color type, palette, interlacing) was
   accepted, the recompression trials have all run by the time the output
   is assembled, even when idat_recoding is false; when idat_recoding is
   false and no reduction was accepted, no trial runs. *)
C8_ReductionForcesRecoding ==
    /\ (o_pc \in {"output", "write"} /\ accepted # {}) =>
           (trials_run = opts.combinations /\ trials_run >= 1)
    /\ (o_pc # "off" /\ ~opts.idat_recoding /\ accepted = {}) => trials_run = 0

(* A run with idat_recoding off in which a palette reduction was accepted
   and the trials ran and replaced the IDAT stream. *)
C8_Witness ==
    /\ o_pc = "write"
    /\ ~opts.idat_recoding
    /\ accepted = {"palette"}
    /\ trials_run = MaxCombinations
    /\ IsSome(best)
    /\ o_png.idat_len = Unwrap(best)

(* C9: if decoding the input fails, optimize returns an error and nothing
   is written: no output file, no backup file, no bytes to stdout. *)
C9_DecodeFailureWritesNothing ==
    (o_pc = "returned" /\ ~in_file.decodable) =>
        (o_ret = "Err" /\ files = NoFiles)

(* optimize has returned for an undecodable file whose options asked for a
   backup and were forced. *)
C9_Witness ==
    /\ o_pc = "returned"
    /\ ~in_file.decodable
    /\ o_ret = "Err"
    /\ opts.backup
    /\ opts.force
    /\ ~opts.pretend

(***************************************************************************)
(* Claims about optimize_with                                              *)
(***************************************************************************)
InitWith == EvalInit /\ FilterOff /\ RedOff /\ OptOff /\ WithInit /\ DeflOff /\ PresetOff /\ MainOff /\ PoolOff /\ PaethOff /\ CascOff /\ ApngOff

SpecWith == InitWith /\ [][NextWith]_vars

(* C10: given a min_gain threshold, when the savings input_size -
   optimized_size are below it optimize_with returns (input_size,
   input_size) and the input file keeps its bytes, even when the output
   target is the input path; when the savings meet it the optimized bytes
   are written to the target and the returned output size is the optimized,
   smaller size. *)
C10_MinGain ==
    (w_pc = "returned" /\ IsSome(w_min_gain)) =>
        LET savings == w_in_size - w_opt_size
            threshold == Unwrap(w_min_gain)[2]
            below == IF Unwrap(w_min_gain)[1] = "Bytes"
                     THEN savings < threshold
                     ELSE savings * 100 < threshold * w_in_size
        IN  IF below
            THEN /\ w_ret = Some(<<w_in_size, w_in_size>>)
                 /\ w_files.input = "input"
                 /\ w_files.output # Some("optimized")
            ELSE /\ w_ret = Some(<<w_in_size, w_opt_size>>)
                 /\ w_opt_size <= w_in_size
                 /\ IF w_out = "path"
                    THEN w_files.output = Some("optimized")
                    ELSE w_files.input = "optimized"

(* An in-place run whose positive savings stay below a Bytes threshold. *)
C10_Witness ==
    /\ w_pc = "returned"
    /\ w_out = "in_place"
    /\ w_min_gain = Some(<<"Bytes", 2>>)
    /\ w_in_size - w_opt_size = 1
    /\ w_ret = Some(<<w_in_size, w_in_size>>)

====
